---- MODULE Spec2Model ----
(***************************************************************************)
(* A model of the conduktr workflow engine.                                *)
(*                                                                         *)
(*   - Engine.ExecuteWorkflow (package engine): the sequential executor    *)
(*     with condition gating, retries and the JSON state store.            *)
(*   - Orchestrator (package orchestration): executeSteps with delay,      *)
(*     sub-workflow and retry handling, and the instance control           *)
(*     operations Cancel / Pause / Resume.                                 *)
(*   - Orchestrator.executeParallelStep: branch goroutines, semaphore,     *)
(*     join modes and fail-fast.                                           *)
(*                                                                         *)
(* Each part has its own next-state relation and specification; the        *)
(* variables of the other parts stay at their initial values.              *)
(***************************************************************************)
EXTENDS Integers, Sequences, FiniteSets, TLC

(***************************************************************************)
(* Bounds of the model.                                                    *)
(***************************************************************************)
\* longest workflow handed to Engine.ExecuteWorkflow
MaxSteps == 2
\* largest retry.max of a step
MaxK == 2
\* retries of the steps that name a backoff strategy
MaxBackoffK == 2
\* most RegisterWorkflow calls
MaxRegs == 3
\* most events the triggers receive
MaxEvents == 2
\* most RegisterWorkflow calls made while the triggers run
MaxTrigRegs == 1
\* most branches of a parallel step
MaxBranches == 2
\* most sub-steps of a branch
MaxSub == 1
\* longest step list handed to Orchestrator.ExecuteWorkflow
MaxOSteps == 2
\* largest RetryPolicy.MaxRetries of an orchestrator step
MaxORetries == 2
\* largest maxIterations of a loop step
MaxIter == 2
\* largest number of calls of Orchestrator.ExecuteWorkflow
MaxExecs == 2
\* largest reading of the clock
MaxClock == 2

(***************************************************************************)
(* Program constants.                                                      *)
(***************************************************************************)
\* baseDuration := time.Second, in seconds
BaseDuration == 1

VARIABLES
    \* ---- Engine.ExecuteWorkflow ----
    ePc,         \* position of the call: idle, init, loop, attempt, exec,
                 \* backoff, done, crashed
    wf,          \* workflow.Workflow, the steps of the definition
    eIdx,        \* index (1-based) of the step the for loop is at
    instance,    \* the *persistence.WorkflowInstance under construction
    stepExec,    \* the persistence.StepExecution of the current step
    attempt,     \* the retry loop's attempt variable
    lastErr,     \* err of the retry loop
    variables,   \* eventCtx.Variables
    store,       \* the file the state store holds for the instance
    eRet,        \* (instanceID, error) returned by ExecuteWorkflow
    eCtxDone,    \* ctx.Err() != nil for the ctx passed to ExecuteWorkflow
    clock,       \* number of time.Now() readings so far
    calls,       \* history: per step, the outcome of each executeStep call
    slept,       \* history: the backoff durations slept, in order
    handed,      \* history: the last SaveWorkflowInstance call and its result
    eCaller,     \* the caller's SetVariable on the context: idle, writing, done
    \* ---- Orchestrator: one execution ----
    executions,  \* o.executions: the ids registered
    metrics,     \* o.metrics
    oPc,         \* position of the ExecuteWorkflow call and of its executeSteps goroutine
    oSteps,      \* steps handed to ExecuteWorkflow
    oIdx,        \* index (1-based) of the step the for loop is at
    oStatus,     \* execCtx.Status
    oCur,        \* execCtx.CurrentStep
    oVars,       \* execCtx.Variables
    oResults,    \* execCtx.StepResults, keyed by step ID
    oErr,        \* execCtx.ErrorDetails.Message, "" when nil
    oCtxDone,    \* ctx.Err() != nil for the ctx passed to ExecuteWorkflow
    oTimedOut,   \* the context.WithTimeout of the current executeStep expired
                 \* before the caller's ctx was cancelled
    oRetry,      \* attempt of retryStep
    oIter,       \* iteration of executeLoopStep
    oSub,        \* the sub-workflow ExecutionContext of the current subflow step
    oTries,      \* history: per step, how many times it was executed
    oDelayEnd,   \* history: per step, how its delay wait ended
    oCancel,     \* history: the first CancelExecution that returned nil
    oPend,       \* (result, err) returned to executeSteps and not yet handled
    \* ---- Orchestrator.executeParallelStep: one call ----
    par,         \* step.Parallel, the configuration of the call
    pPc,         \* position of the calling goroutine
    pSpawned,    \* number of branch goroutines started by the for loop
    bPc,         \* position of each branch goroutine
    bStep,       \* per branch, index of the sub-step its loop is at
    bResult,     \* per branch, the sub-steps in its branchResult
    pResults,    \* the results map, keyed by branch id
    pErrors,     \* the errors map, keyed by branch id
    pSem,        \* len(semaphore): slots held
    pCtxDone,    \* branchCtx.Err() != nil
    pCtxErr,     \* branchCtx.Err(): the cause that came first
    pRet,        \* what executeParallelStep returned
    pFirstErr,   \* history: the branch that first recorded a sub-step error
    pLate,       \* history: a sub-step was started after pFirstErr was set
    pHeap,       \* the Variables maps of the call: of execCtx and of the branches
    \* ---- Orchestrator: several executions ----
    xNow,        \* the reading time.Now().UnixNano() gives
    xCtxs,       \* the ExecutionContexts created, in the order of the calls
    xTable,      \* o.executions: ExecutionID -> the context stored under it
    xCtl,        \* per controlling goroutine, its Cancel/Pause/ResumeExecution
                 \* call: not made, under way with the context its lookup
                 \* found, or returned
    \* ---- Engine: the workflow table and the loader ----
    workflows,   \* e.workflows: event type -> workflow
    regLog,      \* history: the workflows passed to RegisterWorkflow, in order
    loaded,      \* the last LoadWorkflowFromYAML call: its input and result
    \* ---- triggers: events, their goroutines, and the registering goroutine ----
    tEv,         \* the events received, in order, each with its goroutine's state
    tWrite,      \* the RegisterWorkflow call under way on another goroutine
    tRegs,       \* number of RegisterWorkflow calls that returned
    tFatal       \* the process has ended: the runtime found a concurrent map
                 \* read and map write, or a goroutine panicked

engineVars == <<ePc, wf, eIdx, instance, stepExec, attempt, lastErr, variables,
                store, eRet, eCtxDone, clock, calls, slept, handed, eCaller>>

orchVars == <<executions, metrics, oPc, oSteps, oIdx, oStatus, oCur, oVars,
              oResults, oErr, oCtxDone, oTimedOut, oRetry, oIter, oSub, oTries,
              oDelayEnd, oCancel, oPend>>

parVars == <<par, pPc, pSpawned, bPc, bStep, bResult, pResults, pErrors, pSem,
             pCtxDone, pCtxErr, pRet, pFirstErr, pLate, pHeap>>

\* the orchestrator's variables a parallel step leaves alone
orchButMetrics == <<executions, oPc, oSteps, oIdx, oStatus, oCur, oVars, oResults,
                    oErr, oCtxDone, oTimedOut, oRetry, oIter, oSub, oTries,
                    oDelayEnd, oCancel, oPend>>

regVars == <<workflows, regLog, loaded>>

execVars == <<xNow, xCtxs, xTable, xCtl>>

trigVars == <<tEv, tWrite, tRegs, tFatal>>

vars == <<engineVars, orchVars, parVars, regVars, trigVars, execVars>>

(***************************************************************************)
(* Small helpers.                                                          *)
(***************************************************************************)
EmptyMap == [k \in {} |-> ""]

MapPut(m, k, v) == [x \in (DOMAIN m) \cup {k} |-> IF x = k THEN v ELSE m[x]]

NoErr == <<>>

(***************************************************************************)
(* Workflow definitions (engine.Workflow, engine.WorkflowStep).            *)
(***************************************************************************)
NoRetry == [present |-> FALSE, max |-> 0, backoff |-> ""]

\* the retry.backoff values validateWorkflow lets through
Backoffs == {"", "linear", "exponential"}

\* every retry.max with the default backoff, every backoff with the largest
RetryConfigs ==
    {[present |-> TRUE, max |-> k, backoff |-> ""] : k \in 1..MaxK}
    \cup {[present |-> TRUE, max |-> MaxBackoffK, backoff |-> b] : b \in Backoffs}

\* `if` templates: none, literals, one that prints nothing, a malformed one
IfTemplates == {"", "true", "false", "0", "no", "maybe", "{{\"\"}}", "{{"}

\* the step shapes a workflow file can hold; names are given by position
StepShapes ==
    {[action |-> "log.info", ifT |-> t, cfg |-> "hello", retry |-> NoRetry] :
        t \in IfTemplates}
    \cup {[action |-> "log.info", ifT |-> "", cfg |-> "{{", retry |-> NoRetry],
          [action |-> "nope", ifT |-> "", cfg |-> "hello", retry |-> NoRetry]}
    \cup {[action |-> "log.info", ifT |-> "", cfg |-> "hello", retry |-> r] :
        r \in RetryConfigs}
    \cup {[action |-> a, ifT |-> t, cfg |-> "hello",
           retry |-> [present |-> TRUE, max |-> MaxBackoffK, backoff |-> ""]] :
        a \in {"nope"}, t \in {""}}

\* step names are distinct: "step1", "step2", ...
StepName(i) == "step" \o ToString(i)

Workflows ==
    UNION {[1..n -> StepShapes] : n \in 1..MaxSteps}

\* the workflows run while the caller writes the context: steps with and
\* without retries, an unknown action, a falsy and a malformed condition
CallerShapes ==
    {s \in StepShapes : /\ s.ifT \in {"", "false", "{{"}
                        /\ s.retry.present => s.retry.backoff = ""
                        /\ s.cfg = "hello"}

CallerWorkflows ==
    UNION {[1..n -> CallerShapes] : n \in 1..MaxSteps}

\* the step at position i of the definition, with its name
StepAt(i) == [name |-> StepName(i), action |-> wf[i].action, ifT |-> wf[i].ifT,
              cfg |-> wf[i].cfg, retry |-> wf[i].retry]

(***************************************************************************)
(* actions.Registry                                                        *)
(***************************************************************************)
Registry == {"http.request", "shell.exec", "log.info"}

\* Registry.GetAction: TRUE iff the lookup succeeds
GetAction(name) == name \in Registry

(***************************************************************************)
(* persistence.resolveTemplate: text without actions is copied, {{""}}     *)
(* prints the empty string, an unclosed action is a parse error.           *)
(***************************************************************************)
resolveTemplate(t) ==
    IF t = "" THEN [val |-> "", err |-> FALSE]
    ELSE IF t = "{{" THEN [val |-> "", err |-> TRUE]
    ELSE IF t = "{{\"\"}}" THEN [val |-> "", err |-> FALSE]
    ELSE [val |-> t, err |-> FALSE]

(***************************************************************************)
(* Engine.evaluateCondition                                                *)
(***************************************************************************)
evaluateCondition_NoIsTruthy(condition) ==
    LET r == resolveTemplate(condition) IN
    IF r.err THEN [ok |-> FALSE, err |-> TRUE]
    ELSE IF r.val \in {"true", "1", "yes", "no"} THEN [ok |-> TRUE, err |-> FALSE]
    ELSE IF r.val \in {"false", "0", ""} THEN [ok |-> FALSE, err |-> FALSE]
    ELSE [ok |-> r.val # "", err |-> FALSE]

evaluateCondition(condition) ==
    LET r == resolveTemplate(condition) IN
    IF r.err THEN [ok |-> FALSE, err |-> TRUE]
    ELSE IF r.val \in {"true", "1", "yes"} THEN [ok |-> TRUE, err |-> FALSE]
    ELSE IF r.val \in {"false", "0", "no", ""} THEN [ok |-> FALSE, err |-> FALSE]
    ELSE [ok |-> r.val # "", err |-> FALSE]

(***************************************************************************)
(* Engine.calculateBackoff, in seconds                                     *)
(***************************************************************************)
calculateBackoff(retry, att) ==
    IF ~retry.present THEN BaseDuration
    ELSE IF retry.backoff = "exponential" THEN BaseDuration * (2 ^ att)
    ELSE BaseDuration

(***************************************************************************)
(* maxRetries of the retry loop                                            *)
(***************************************************************************)
MaxRetriesOf_OneMore(step) ==
    IF step.retry.present /\ step.retry.max > 0 THEN step.retry.max + 1 ELSE 1

MaxRetriesOf(step) ==
    IF step.retry.present /\ step.retry.max > 0 THEN step.retry.max ELSE 1

(***************************************************************************)
(* Engine.executeStep for one attempt.  `o` is what action.Execute does    *)
(* when it is reached: "ok" (non-nil output), "oknil" (nil output, nil     *)
(* error) or "err".  The result tells whether the action was looked up     *)
(* and invoked, the error returned and the output stored.                  *)
(***************************************************************************)
ActionOutcomes == {"ok", "oknil", "err"}

\* a mutant: a nil output is stored under the step's name as well
executeStep_StoreNil(step, o) ==
    IF ~GetAction(step.action)
    THEN [kind |-> "notfound", invoked |-> FALSE, hasOutput |-> FALSE,
          err |-> <<"action not found: ", step.action>>]
    ELSE IF resolveTemplate(step.cfg).err
    THEN [kind |-> "tmplerr", invoked |-> FALSE, hasOutput |-> FALSE,
          err |-> <<"template resolution failed for ", "message">>]
    ELSE IF o = "err"
    THEN [kind |-> "err", invoked |-> TRUE, hasOutput |-> FALSE,
          err |-> <<"action failed">>]
    ELSE [kind |-> o, invoked |-> TRUE, hasOutput |-> TRUE, err |-> NoErr]

executeStep(step, o) ==
    IF ~GetAction(step.action)
    THEN [kind |-> "notfound", invoked |-> FALSE, hasOutput |-> FALSE,
          err |-> <<"action not found: ", step.action>>]
    ELSE IF resolveTemplate(step.cfg).err
    THEN [kind |-> "tmplerr", invoked |-> FALSE, hasOutput |-> FALSE,
          err |-> <<"template resolution failed for ", "message">>]
    ELSE IF o = "err"
    THEN [kind |-> "err", invoked |-> TRUE, hasOutput |-> FALSE,
          err |-> <<"action failed">>]
    ELSE [kind |-> o, invoked |-> TRUE, hasOutput |-> (o = "ok"), err |-> NoErr]

(***************************************************************************)
(* JSONPersistence.  The file <id>.json holds the JSON document of the     *)
(* instance: a field tagged omitempty is left out when it is nil or empty  *)
(* and reads back as nil or empty.                                         *)
(***************************************************************************)
NoRecord == [exists |-> FALSE, id |-> "", status |-> "", steps |-> <<>>,
             endSet |-> FALSE, endTime |-> 0, error |-> NoErr]

\* the *WorkflowInstance as it is at the time of a call
Snapshot(inst) == [exists |-> TRUE, id |-> inst.id, status |-> inst.status,
                   steps |-> inst.steps, endSet |-> inst.endSet,
                   endTime |-> inst.endTime, error |-> inst.error]

\* what a call of SaveWorkflowInstance does: "ok"; "fail", an error before
\* the file is opened (json.MarshalIndent, or the open in os.WriteFile);
\* "torn", an error in os.WriteFile after the file was opened and truncated
SaveOutcomes == {"ok", "fail", "torn"}

\* a call SaveWorkflowInstance(inst) and whether it returned an error
HandOver(inst, save) == [rec |-> Snapshot(inst), err |-> save # "ok"]

\* json.Marshal of a StepExecution
MarshalStep(se) ==
    [name |-> se.name, status |-> se.status, start_time |-> se.start,
     input |-> se.hasInput, output |-> se.hasOutput, retries |-> se.retries]
    @@ (IF se.endSet THEN [end_time |-> se.endTime] ELSE EmptyMap)
    @@ (IF se.error # NoErr THEN [error |-> se.error] ELSE EmptyMap)

\* json.MarshalIndent of a WorkflowInstance
MarshalIndent(inst) ==
    [id |-> inst.id, status |-> inst.status, start_time |-> inst.start,
     steps |-> [i \in DOMAIN inst.steps |-> MarshalStep(inst.steps[i])]]
    @@ (IF inst.endSet THEN [end_time |-> inst.endTime] ELSE EmptyMap)
    @@ (IF inst.error # NoErr THEN [error |-> inst.error] ELSE EmptyMap)

\* json.Unmarshal into a StepExecution
UnmarshalStep(doc) ==
    [name |-> doc.name, status |-> doc.status, start |-> doc.start_time,
     endSet |-> "end_time" \in DOMAIN doc,
     endTime |-> IF "end_time" \in DOMAIN doc THEN doc.end_time ELSE 0,
     hasInput |-> doc.input, hasOutput |-> doc.output,
     error |-> IF "error" \in DOMAIN doc THEN doc.error ELSE NoErr,
     retries |-> doc.retries]

\* json.Unmarshal into a WorkflowInstance
Unmarshal(doc) ==
    [id |-> doc.id, status |-> doc.status, start |-> doc.start_time,
     endSet |-> "end_time" \in DOMAIN doc,
     endTime |-> IF "end_time" \in DOMAIN doc THEN doc.end_time ELSE 0,
     steps |-> [i \in DOMAIN doc.steps |-> UnmarshalStep(doc.steps[i])],
     error |-> IF "error" \in DOMAIN doc THEN doc.error ELSE NoErr]

\* no file in the data directory
NoFile == [exists |-> FALSE, id |-> "", whole |-> FALSE, doc |-> EmptyMap]

\* a mutant: an existing file is not written again
SaveWorkflowInstance_KeepFirst(inst, save) ==
    IF save = "ok" /\ ~store.exists
    THEN [exists |-> TRUE, id |-> inst.id, whole |-> TRUE,
          doc |-> MarshalIndent(inst)]
    ELSE store

\* SaveWorkflowInstance: on success the file <inst.ID>.json holds the document
\* of the instance as it is now; on a failure before the open the file is
\* left as it was; on a failure after the open the file is there, empty or
\* holding a part of the document only
SaveWorkflowInstance(inst, save) ==
    IF save = "ok"
    THEN [exists |-> TRUE, id |-> inst.id, whole |-> TRUE,
          doc |-> MarshalIndent(inst)]
    ELSE IF save = "torn"
    THEN [exists |-> TRUE, id |-> inst.id, whole |-> FALSE, doc |-> EmptyMap]
    ELSE store

\* GetWorkflowInstance: the instance read back from <instanceID>.json, or the
\* error "instance not found", or "failed to unmarshal instance" for a file
\* that does not hold a whole document
GetWorkflowInstance(instanceID) ==
    IF store.exists /\ store.id = instanceID
    THEN IF store.whole
         THEN [found |-> TRUE, inst |-> Unmarshal(store.doc), err |-> NoErr]
         ELSE [found |-> FALSE, inst |-> NoRecord,
               err |-> <<"failed to unmarshal instance">>]
    ELSE [found |-> FALSE, inst |-> NoRecord,
          err |-> <<"instance not found: ", instanceID>>]

(***************************************************************************)
(* Records of the run.                                                     *)
(***************************************************************************)
NoInstance == [id |-> "", status |-> "", start |-> 0, endSet |-> FALSE,
               endTime |-> 0, steps |-> <<>>, error |-> NoErr]

NoStepExec == [name |-> "", status |-> "", start |-> 0, endSet |-> FALSE,
               endTime |-> 0, hasInput |-> FALSE, hasOutput |-> FALSE,
               error |-> NoErr, retries |-> 0]

\* persistence.StepExecution{Name, Status: "running", StartTime: time.Now(), ...}
NewStepExec(name, now) ==
    [name |-> name, status |-> "running", start |-> now, endSet |-> FALSE,
     endTime |-> 0, hasInput |-> FALSE, hasOutput |-> FALSE,
     error |-> NoErr, retries |-> 0]

\* fmt.Sprintf("Step '%s' failed: %v", step.Name, err)
InstanceError(name, err) == <<"Step '", name, "' failed: ">> \o err

\* fmt.Errorf("workflow failed at step '%s': %w", step.Name, err)
ReturnError(name, err) == <<"workflow failed at step '", name, "': ">> \o err

NoRet == [returned |-> FALSE, id |-> "", err |-> NoErr]

\* a mutant: a skipped step is left out of the history
AppendStep_DropSkipped(inst, se) ==
    IF se.status = "skipped" THEN inst
    ELSE [inst EXCEPT !.steps = Append(@, se)]

\* instance.Steps = append(instance.Steps, stepExec)
AppendStep(inst, se) == [inst EXCEPT !.steps = Append(@, se)]

InitEngine ==
    /\ ePc = "idle"
    /\ wf = <<>>
    /\ eIdx = 0
    /\ instance = NoInstance
    /\ stepExec = NoStepExec
    /\ attempt = 0
    /\ lastErr = NoErr
    /\ variables = EmptyMap
    /\ store = NoFile
    /\ eRet = NoRet
    /\ eCtxDone = FALSE
    /\ clock = 0
    /\ calls = <<>>
    /\ slept = <<>>
    /\ handed = [rec |-> NoRecord, err |-> FALSE]
    /\ eCaller = "idle"

(***************************************************************************)
(* ExecuteWorkflow, up to the for loop: the instance is created with       *)
(* status running, then saved.                                             *)
(***************************************************************************)
StartWorkflow(w) ==
    /\ UNCHANGED <<orchVars, parVars, regVars, trigVars, execVars, eCaller>>
    /\ ePc = "idle"
    /\ wf' = w
    /\ instance' = [id |-> "uuid-1", status |-> "running", start |-> clock + 1,
                    endSet |-> FALSE, endTime |-> 0, steps |-> <<>>,
                    error |-> NoErr]
    /\ calls' = [i \in 1..Len(w) |-> <<>>]
    /\ clock' = clock + 1
    /\ ePc' = "init"
    /\ UNCHANGED <<eIdx, stepExec, attempt, lastErr, variables, eRet, eCtxDone,
                   slept, store, handed>>

\* a call with any workflow
EngExecuteWorkflow ==
    /\ ePc = "idle"
    /\ \E w \in Workflows : StartWorkflow(w)

\* a call by a caller that keeps the *EventContext and writes it
EngExecuteForCaller ==
    /\ ePc = "idle"
    /\ \E w \in CallerWorkflows : StartWorkflow(w)

\* the initial save; its error is only logged, and the for loop starts
EngInitialSave ==
    /\ UNCHANGED <<orchVars, parVars, regVars, trigVars, execVars, eCaller>>
    /\ ePc = "init"
    /\ \E save \in SaveOutcomes :
        /\ store' = SaveWorkflowInstance(instance, save)
        /\ handed' = HandOver(instance, save)
    /\ eIdx' = 1
    /\ ePc' = "loop"
    /\ UNCHANGED <<wf, instance, stepExec, attempt, lastErr, variables, eRet,
                   eCtxDone, clock, calls, slept>>

(***************************************************************************)
(* Top of the for loop with a condition that fails to evaluate: the step   *)
(* is recorded failed and the loop continues.                              *)
(***************************************************************************)
EngConditionError ==
    /\ UNCHANGED <<orchVars, parVars, regVars, trigVars, execVars, eCaller>>
    /\ ePc = "loop"
    /\ eIdx <= Len(wf)
    /\ LET step == StepAt(eIdx)
           se == NewStepExec(step.name, clock + 1)
       IN /\ step.ifT # ""
          /\ evaluateCondition(step.ifT).err
          /\ instance' = AppendStep(instance,
                [se EXCEPT !.status = "failed",
                           !.error = <<"condition evaluation failed: ">>])
    /\ clock' = clock + 1
    /\ eIdx' = eIdx + 1
    /\ UNCHANGED <<ePc, wf, stepExec, attempt, lastErr, variables, store, eRet,
                   eCtxDone, calls, slept, handed>>

(***************************************************************************)
(* Top of the for loop with a falsy condition: the step is recorded        *)
(* skipped and the loop continues.                                         *)
(***************************************************************************)
EngSkipStep ==
    /\ UNCHANGED <<orchVars, parVars, regVars, trigVars, execVars, eCaller>>
    /\ ePc = "loop"
    /\ eIdx <= Len(wf)
    /\ LET step == StepAt(eIdx)
           se == NewStepExec(step.name, clock + 1)
           c == evaluateCondition(step.ifT)
       IN /\ step.ifT # ""
          /\ ~c.err
          /\ ~c.ok
          /\ instance' = AppendStep(instance,
                [se EXCEPT !.status = "skipped", !.endSet = TRUE,
                           !.endTime = clock + 2])
    /\ clock' = clock + 2
    /\ eIdx' = eIdx + 1
    /\ UNCHANGED <<ePc, wf, stepExec, attempt, lastErr, variables, store, eRet,
                   eCtxDone, calls, slept, handed>>

(***************************************************************************)
(* Top of the for loop for a step that is to run: enter the retry loop.    *)
(***************************************************************************)
EngEnterStep ==
    /\ UNCHANGED <<orchVars, parVars, regVars, trigVars, execVars, eCaller>>
    /\ ePc = "loop"
    /\ eIdx <= Len(wf)
    /\ LET step == StepAt(eIdx)
           c == evaluateCondition(step.ifT)
       IN /\ step.ifT = "" \/ (~c.err /\ c.ok)
          /\ stepExec' = NewStepExec(step.name, clock + 1)
    /\ clock' = clock + 1
    /\ attempt' = 0
    /\ lastErr' = NoErr
    /\ ePc' = "attempt"
    /\ UNCHANGED <<wf, eIdx, instance, variables, store, eRet, eCtxDone, calls,
                   slept, handed>>

(***************************************************************************)
(* What the for loop does once the retry loop is left.                     *)
(***************************************************************************)
\* a mutant: a save that fails ends the run with the instance failed
StepCompleted_HaltOnSaveError(se, save) ==
    LET done == [se EXCEPT !.status = "completed", !.endSet = TRUE,
                           !.endTime = clock + 1]
        inst == AppendStep(IF save = "ok" THEN instance
                           ELSE [instance EXCEPT !.status = "failed", !.endSet = TRUE,
                                                 !.endTime = clock + 1,
                                                 !.error = <<"save failed">>],
                           done)
    IN /\ instance' = inst
       /\ store' = SaveWorkflowInstance(inst, save)
       /\ handed' = HandOver(inst, save)
       /\ clock' = clock + 1
       /\ eIdx' = IF save = "ok" THEN eIdx + 1 ELSE eIdx
       /\ ePc' = IF save = "ok" THEN "loop" ELSE "done"
       /\ eRet' = IF save = "ok" THEN eRet
                  ELSE [returned |-> TRUE, id |-> instance.id, err |-> <<"save failed">>]

\* err == nil: the step is completed, recorded and saved
StepCompleted(se, save) ==
    LET done == [se EXCEPT !.status = "completed", !.endSet = TRUE,
                           !.endTime = clock + 1]
        inst == AppendStep(instance, done)
    IN /\ instance' = inst
       /\ store' = SaveWorkflowInstance(inst, save)
       /\ handed' = HandOver(inst, save)
       /\ clock' = clock + 1
       /\ eIdx' = eIdx + 1
       /\ ePc' = "loop"
       /\ eRet' = eRet

\* a mutant: the failure is recorded but the loop goes on to the next step
StepFailed_Continue(se, err, save) ==
    LET step == StepAt(eIdx)
        failed == [se EXCEPT !.status = "failed", !.error = err,
                             !.endSet = TRUE, !.endTime = clock + 1]
        inst == AppendStep(instance, failed)
    IN /\ instance' = inst
       /\ store' = SaveWorkflowInstance(inst, save)
       /\ handed' = HandOver(inst, save)
       /\ clock' = clock + 1
       /\ eIdx' = eIdx + 1
       /\ ePc' = "loop"
       /\ eRet' = eRet

\* a mutant: the failed instance is saved and returned without an EndTime
StepFailed_NoEndTime(se, err, save) ==
    LET step == StepAt(eIdx)
        failed == [se EXCEPT !.status = "failed", !.error = err,
                             !.endSet = TRUE, !.endTime = clock + 1]
        inst == AppendStep([instance EXCEPT !.status = "failed",
                                            !.error = InstanceError(step.name, err)],
                           failed)
    IN /\ instance' = inst
       /\ store' = SaveWorkflowInstance(inst, save)
       /\ handed' = HandOver(inst, save)
       /\ clock' = clock + 1
       /\ eIdx' = eIdx
       /\ ePc' = "done"
       /\ eRet' = [returned |-> TRUE, id |-> instance.id,
                   err |-> ReturnError(step.name, err)]

\* err != nil: step and instance are failed, saved, and the call returns
StepFailed(se, err, save) ==
    LET step == StepAt(eIdx)
        failed == [se EXCEPT !.status = "failed", !.error = err,
                             !.endSet = TRUE, !.endTime = clock + 1]
        inst == AppendStep([instance EXCEPT !.status = "failed",
                                            !.error = InstanceError(step.name, err),
                                            !.endSet = TRUE, !.endTime = clock + 1],
                           failed)
    IN /\ instance' = inst
       /\ store' = SaveWorkflowInstance(inst, save)
       /\ handed' = HandOver(inst, save)
       /\ clock' = clock + 1
       /\ eIdx' = eIdx
       /\ ePc' = "done"
       /\ eRet' = [returned |-> TRUE, id |-> instance.id,
                   err |-> ReturnError(step.name, err)]

\* a mutant: Retries counts attempts instead of the attempts before this one
RetriesOf_Attempts(att) == att + 1

\* stepExec.Retries = attempt
RetriesOf(att) == att

(***************************************************************************)
(* One pass of the retry loop after any backoff: executeStep is called.    *)
(* It returns at once when the action is unknown or a template fails;      *)
(* otherwise it sets the input and waits in action.Execute.  On success    *)
(* the loop breaks, on failure it goes round again or ends.                *)
(***************************************************************************)
\* executeStep gets as far as action.Execute
Invokes(step) == GetAction(step.action) /\ ~resolveTemplate(step.cfg).err

\* what the retry loop and the for loop do with the result r of executeStep
AfterExecute(r, save) ==
    LET step == StepAt(eIdx)
        se == [stepExec EXCEPT !.retries = RetriesOf(attempt),
                               !.hasInput = @ \/ r.kind \in {"ok", "oknil", "err"},
                               !.hasOutput = r.hasOutput]
    IN /\ calls' = [calls EXCEPT ![eIdx] = Append(@, r.kind)]
       /\ variables' = IF r.hasOutput
                       THEN MapPut(variables, step.name, "output")
                       ELSE variables
       /\ IF r.err = NoErr
          THEN /\ StepCompleted(se, save)
               /\ stepExec' = NoStepExec
               /\ attempt' = 0
               /\ lastErr' = NoErr
          ELSE IF attempt + 1 < MaxRetriesOf(step)
          THEN /\ stepExec' = se
               /\ attempt' = attempt + 1
               /\ lastErr' = r.err
               /\ ePc' = "backoff"
               /\ UNCHANGED <<instance, store, clock, eIdx, eRet, handed>>
          ELSE /\ StepFailed(se, r.err, save)
               /\ stepExec' = NoStepExec
               /\ attempt' = 0
               /\ lastErr' = NoErr

\* the call of executeStep, up to its early return or to action.Execute
EngAttempt ==
    /\ UNCHANGED <<orchVars, parVars, regVars, trigVars, execVars, eCaller>>
    /\ ePc = "attempt"
    /\ IF Invokes(StepAt(eIdx))
       THEN /\ ePc' = "exec"
            /\ stepExec' = [stepExec EXCEPT !.retries = RetriesOf(attempt),
                                            !.hasInput = TRUE]
            /\ UNCHANGED <<instance, store, clock, eIdx, eRet, handed, calls,
                           variables, attempt, lastErr>>
       ELSE \E save \in SaveOutcomes :
                AfterExecute(executeStep(StepAt(eIdx), "err"), save)
    /\ UNCHANGED <<wf, eCtxDone, slept>>

\* action.Execute returns, and what follows up to the next wait
EngExecReturn ==
    /\ UNCHANGED <<orchVars, parVars, regVars, trigVars, execVars, eCaller>>
    /\ ePc = "exec"
    /\ \E o \in ActionOutcomes, save \in SaveOutcomes :
            AfterExecute(executeStep(StepAt(eIdx), o), save)
    /\ UNCHANGED <<wf, eCtxDone, slept>>

(***************************************************************************)
(* attempt > 0: time.Sleep(calculateBackoff(step.Retry, attempt)) returns. *)
(* The sleep does not look at ctx.                                         *)
(***************************************************************************)
EngBackoffDone ==
    /\ UNCHANGED <<orchVars, parVars, regVars, trigVars, execVars, eCaller>>
    /\ ePc = "backoff"
    /\ slept' = Append(slept, calculateBackoff(StepAt(eIdx).retry, attempt))
    /\ ePc' = "attempt"
    /\ UNCHANGED <<wf, eIdx, instance, stepExec, attempt, lastErr, variables,
                   store, eRet, eCtxDone, clock, calls, handed>>

(***************************************************************************)
(* After the for loop: the instance is completed and saved.                *)
(***************************************************************************)
EngFinish ==
    /\ UNCHANGED <<orchVars, parVars, regVars, trigVars, execVars, eCaller>>
    /\ ePc = "loop"
    /\ eIdx > Len(wf)
    /\ \E save \in SaveOutcomes :
        LET inst == [instance EXCEPT !.status = "completed", !.endSet = TRUE,
                                     !.endTime = clock + 1]
        IN /\ instance' = inst
           /\ store' = SaveWorkflowInstance(inst, save)
           /\ handed' = HandOver(inst, save)
    /\ clock' = clock + 1
    /\ ePc' = "done"
    /\ eRet' = [returned |-> TRUE, id |-> instance.id, err |-> NoErr]
    /\ UNCHANGED <<wf, eIdx, stepExec, attempt, lastErr, variables, eCtxDone,
                   calls, slept>>

(***************************************************************************)
(* The caller cancels the ctx it passed to ExecuteWorkflow.                *)
(***************************************************************************)
EngCtxCancel ==
    /\ UNCHANGED <<orchVars, parVars, regVars, trigVars, execVars, eCaller>>
    /\ ePc \in {"init", "loop", "attempt", "exec", "backoff"}
    /\ ~eCtxDone
    /\ eCtxDone' = TRUE
    /\ UNCHANGED <<ePc, wf, eIdx, instance, stepExec, attempt, lastErr, variables,
                   store, eRet, clock, calls, slept, handed>>

(***************************************************************************)
(* The caller kept the *EventContext it passed and calls SetVariable on it *)
(* while the workflow runs.  The map is not synchronised: a write by the   *)
(* engine while the caller's write is under way is a data race, which the  *)
(* runtime may stop with "fatal error: concurrent map writes"; so is the   *)
(* iteration over the map by json.MarshalIndent in SaveWorkflowInstance    *)
(* (instance.Context.Variables), which the runtime may stop with           *)
(* "fatal error: concurrent map iteration and map write".                  *)
(***************************************************************************)
\* the key the caller writes; it is not the name of a step
CallerKey == "other"

\* SetVariable is entered
EngSetVariableBegin ==
    /\ UNCHANGED <<orchVars, parVars, regVars, trigVars, execVars>>
    /\ ePc \in {"init", "loop", "attempt", "exec", "backoff"}
    /\ eCaller = "idle"
    /\ eCaller' = "writing"
    /\ UNCHANGED <<ePc, wf, eIdx, instance, stepExec, attempt, lastErr, variables,
                   store, eRet, eCtxDone, clock, calls, slept, handed>>

\* ctx.Variables[name] = value is done
EngSetVariableEnd ==
    /\ UNCHANGED <<orchVars, parVars, regVars, trigVars, execVars>>
    /\ eCaller = "writing"
    /\ ePc # "crashed"
    /\ eCaller' = "done"
    /\ variables' = MapPut(variables, CallerKey, "value")
    /\ UNCHANGED <<ePc, wf, eIdx, instance, stepExec, attempt, lastErr, store,
                   eRet, eCtxDone, clock, calls, slept, handed>>

\* the next step of the engine's goroutine reads or writes the map: the
\* initial save; the final save after the loop; the save of a step that
\* failed for good without reaching action.Execute; and the return of
\* action.Execute, which is followed by the store of the output or a save
\* unless a failed attempt is retried
TouchesVariables ==
    \/ ePc = "init"
    \/ ePc = "loop" /\ eIdx > Len(wf)
    \/ /\ ePc = "attempt"
       /\ ~Invokes(StepAt(eIdx))
       /\ attempt + 1 >= MaxRetriesOf(StepAt(eIdx))
    \/ ePc = "exec"

\* the engine touches the map while the caller's write is under way, and the
\* runtime stops the process
EngFatal ==
    /\ UNCHANGED <<orchVars, parVars, regVars, trigVars, execVars>>
    /\ eCaller = "writing"
    /\ TouchesVariables
    /\ ePc' = "crashed"
    /\ UNCHANGED <<wf, eIdx, instance, stepExec, attempt, lastErr, variables,
                   store, eRet, eCtxDone, clock, calls, slept, handed, eCaller>>

NextEngine ==
    \/ EngExecuteWorkflow
    \/ EngInitialSave
    \/ EngConditionError
    \/ EngSkipStep
    \/ EngEnterStep
    \/ EngAttempt
    \/ EngExecReturn
    \/ EngBackoffDone
    \/ EngFinish
    \/ EngCtxCancel

\* a run whose caller writes the context
NextCaller ==
    \/ EngExecuteForCaller
    \/ EngInitialSave
    \/ EngConditionError
    \/ EngSkipStep
    \/ EngEnterStep
    \/ EngAttempt
    \/ EngExecReturn
    \/ EngBackoffDone
    \/ EngFinish
    \/ EngCtxCancel
    \/ EngSetVariableBegin
    \/ EngSetVariableEnd
    \/ EngFatal

(***************************************************************************)
(* Orchestrator (package orchestration): one execution.                    *)
(*                                                                         *)
(* Steps of type parallel are modelled on their own, further down.         *)
(***************************************************************************)
NoSub == [present |-> FALSE, async |-> FALSE, input |-> EmptyMap,
          output |-> EmptyMap, statics |-> EmptyMap]

\* SubWorkflowConfig values: InputMapping is sub-var <- parent-var (parent
\* variable "gone" is never set), OutputMapping is parent-var <- sub-var (the
\* sub-workflow has no variable "none"), Variables are the static ones
SubConfigs ==
    {[present |-> TRUE, async |-> a,
      input |-> ("a" :> "x" @@ "b" :> "gone"),
      output |-> ("y" :> "result" @@ "z" :> "a" @@ "w" :> "none"),
      statics |-> ("result" :> "r")] : a \in BOOLEAN}

OShape(type, retry, timeout, cfg, maxIter, sub) ==
    [type |-> type, retry |-> retry, timeout |-> timeout, cfg |-> cfg,
     maxIter |-> maxIter, sub |-> sub]

\* the step shapes handed to the orchestrator; retry is RetryPolicy.MaxRetries,
\* 0 when the step has no policy; timeout tells whether step.Timeout > 0
OStepShapes ==
    {OShape("action", k, FALSE, "", 0, NoSub) : k \in {0, 1, MaxORetries}}
    \cup {OShape("delay", 0, t, "1s", 0, NoSub) : t \in BOOLEAN}
    \cup {OShape("delay", 0, FALSE, "soon", 0, NoSub)}
    \cup {OShape("delay", 1, FALSE, "1s", 0, NoSub)}
    \cup {OShape("subflow", 0, FALSE, "", 0, sc) : sc \in SubConfigs \cup {NoSub}}
    \cup {OShape("condition", 0, FALSE, c, 0, NoSub) : c \in {"cond", "missing"}}
    \cup {OShape("loop", 0, FALSE, "cond", MaxIter, NoSub)}

OWorkflows == UNION {[1..n -> OStepShapes] : n \in 1..MaxOSteps}

\* loop steps with every maxIterations up to the bound, a negative one
\* included (the int is taken from the config as it is), with either
\* condition, with and without a step timeout, and the workflows made of
\* them
LoopShapes ==
    {OShape("loop", 0, t, c, m, NoSub) :
        m \in -1..MaxIter, c \in {"true", "false"}, t \in BOOLEAN}

LoopWorkflows == UNION {[1..n -> LoopShapes] : n \in 1..MaxOSteps}

\* the Variables a caller starts an execution with
OInitialVariables == {("x" :> "vx")}

OStepId(i) == "id" \o ToString(i)

ExecId == "exec_1"

\* time.ParseDuration on the strings used here
ParseDurationOk(d) == d = "1s"

\* Orchestrator.evaluateCondition: always true
OEvaluateCondition(condition) == TRUE

\* Orchestrator.shouldRetry
shouldRetry(step) == step.retry > 0

OResult(kind, n) == [kind |-> kind, n |-> n]

\* executeLoopStep: results := make([]interface{}, 0); iteration := 0
NoLoop == [iteration |-> 0, results |-> <<>>]

\* executeLoopStep: `for iteration < maxIterations` and no break on the
\* condition
LoopGoesOn(it, step) ==
    it.iteration < step.maxIter /\ OEvaluateCondition(step.cfg)

\* the map executeLoopStep returns: iterations, results, status completed
LoopResult(it) ==
    [kind |-> "loop", n |-> it.iteration, results |-> it.results]

\* nothing returned by executeStep is waiting in executeSteps
NoPend == [res |-> OResult("", 0), err |-> ""]

NoCancel == [acked |-> FALSE, pc |-> "", started |-> 0]

NoMetrics == [total |-> 0, completed |-> 0, failed |-> 0, subs |-> 0,
              parallels |-> 0]

\* number of steps dispatched so far
OStarted == Cardinality({i \in DOMAIN oTries : oTries[i] > 0})

\* the ctx an executeStep call works with: the caller's, or its WithTimeout child
StepCtxDone == oCtxDone \/ oTimedOut

InitOrch ==
    /\ executions = {}
    /\ metrics = NoMetrics
    /\ oPc = "none"
    /\ oSteps = <<>>
    /\ oIdx = 0
    /\ oStatus = ""
    /\ oCur = 0
    /\ oVars = EmptyMap
    /\ oResults = EmptyMap
    /\ oErr = ""
    /\ oCtxDone = FALSE
    /\ oTimedOut = FALSE
    /\ oRetry = 0
    /\ oIter = NoLoop
    /\ oSub = <<>>
    /\ oTries = <<>>
    /\ oDelayEnd = <<>>
    /\ oCancel = NoCancel
    /\ oPend = NoPend

(***************************************************************************)
(* Orchestrator.ExecuteWorkflow: the execution is created running and      *)
(* registered under o.mu; it is counted under metrics.mu; its goroutine is *)
(* started and the call returns.                                           *)
(***************************************************************************)
StartExecution(steps, v) ==
    /\ UNCHANGED <<engineVars, parVars, regVars, trigVars, execVars>>
    /\ oPc = "none"
    /\ oSteps' = steps
    /\ oVars' = v
    /\ oTries' = [i \in 1..Len(steps) |-> 0]
    /\ oDelayEnd' = [i \in 1..Len(steps) |-> ""]
    /\ oStatus' = "running"
    /\ executions' = executions \cup {ExecId}
    /\ oPc' = "registered"
    /\ UNCHANGED <<metrics, oIdx, oCur, oResults, oErr, oCtxDone, oTimedOut,
                   oRetry, oIter, oSub, oCancel, oPend>>

\* o.metrics.TotalExecutions++
OCountTotal ==
    /\ UNCHANGED <<engineVars, parVars, regVars, trigVars, execVars>>
    /\ oPc = "registered"
    /\ metrics' = [metrics EXCEPT !.total = @ + 1]
    /\ oPc' = "counted"
    /\ UNCHANGED <<executions, oSteps, oIdx, oStatus, oCur, oVars, oResults,
                   oErr, oCtxDone, oTimedOut, oRetry, oIter, oSub, oTries,
                   oDelayEnd, oCancel, oPend>>

\* go o.executeSteps(ctx, execCtx, steps), and the return
OGo ==
    /\ UNCHANGED <<engineVars, parVars, regVars, trigVars, execVars>>
    /\ oPc = "counted"
    /\ oIdx' = 1
    /\ oPc' = "loop"
    /\ UNCHANGED <<executions, metrics, oSteps, oStatus, oCur, oVars, oResults,
                   oErr, oCtxDone, oTimedOut, oRetry, oIter, oSub, oTries,
                   oDelayEnd, oCancel, oPend>>

\* a call with any workflow
OrchExecuteWorkflow ==
    /\ oPc = "none"
    /\ \E steps \in OWorkflows, v \in OInitialVariables : StartExecution(steps, v)

\* a call with a workflow of loop steps
OrchExecuteLoops ==
    /\ oPc = "none"
    /\ \E steps \in LoopWorkflows, v \in OInitialVariables :
            StartExecution(steps, v)

(***************************************************************************)
(* executeSteps after executeStep or retryStep has returned: the result    *)
(* waits for the lock at 233, an error for markExecutionFailed.            *)
(***************************************************************************)
\* (result, err) of executeStep: a result is to be stored, an error goes to
\* retryStep when shouldRetry says so and to markExecutionFailed otherwise
AfterExecuteStep(res, err) ==
    IF err = ""
    THEN /\ oPc' = "store"
         /\ oPend' = [res |-> res, err |-> ""]
         /\ oRetry' = oRetry
    ELSE IF shouldRetry(oSteps[oIdx])
    THEN /\ oPc' = "retrywait"
         /\ oRetry' = 1
         /\ oPend' = oPend
    ELSE /\ oPc' = "fail"
         /\ oPend' = [res |-> OResult("", 0), err |-> err]
         /\ oRetry' = oRetry

\* guard of a dispatch: CurrentStep is written, the step is of the type
AtStep(type) ==
    /\ oPc = "step"
    /\ oSteps[oIdx].type = type

\* bookkeeping of a dispatch: executeStep is entered, with a new WithTimeout
\* child when step.Timeout > 0
Dispatched ==
    /\ oTries' = [oTries EXCEPT ![oIdx] = @ + 1]
    /\ oTimedOut' = FALSE

\* ctx.Err() of the ctx executeStep works with: the cause that came first
StepCtxErr ==
    IF oTimedOut THEN "context deadline exceeded" ELSE "context canceled"

(***************************************************************************)
(* Top of the for loop with ctx cancelled: markExecutionCancelled.         *)
(***************************************************************************)
OLoopCancelled ==
    /\ UNCHANGED <<engineVars, parVars, regVars, trigVars, execVars>>
    /\ oPc = "loop"
    /\ oIdx <= Len(oSteps)
    /\ oCtxDone
    /\ oStatus' = "cancelled"
    /\ oPc' = "done"
    /\ UNCHANGED <<executions, metrics, oSteps, oIdx, oCur, oVars, oResults, oErr,
                   oCtxDone, oTimedOut, oRetry, oIter, oSub, oTries, oDelayEnd,
                   oCancel, oPend>>

(***************************************************************************)
(* Top of the for loop otherwise: CurrentStep = i, under execCtx.mu.       *)
(***************************************************************************)
OSetCurrentStep ==
    /\ UNCHANGED <<engineVars, parVars, regVars, trigVars, execVars>>
    /\ oPc = "loop"
    /\ oIdx <= Len(oSteps)
    /\ ~oCtxDone
    /\ oCur' = oIdx - 1
    /\ oPc' = "step"
    /\ UNCHANGED <<executions, metrics, oSteps, oIdx, oStatus, oVars, oResults,
                   oErr, oCtxDone, oTimedOut, oRetry, oIter, oSub, oTries,
                   oDelayEnd, oCancel, oPend>>

(***************************************************************************)
(* An action step: stepExecutor.ExecuteStep is called ...                  *)
(***************************************************************************)
ODispatchAction ==
    /\ UNCHANGED <<engineVars, parVars, regVars, trigVars, execVars>>
    /\ AtStep("action")
    /\ Dispatched
    /\ oPc' = "exec"
    /\ UNCHANGED <<executions, metrics, oSteps, oIdx, oStatus, oCur, oVars,
                   oResults, oErr, oCtxDone, oRetry, oIter, oSub, oDelayEnd,
                   oCancel, oPend>>

\* ... and returns
OExecReturn ==
    /\ UNCHANGED <<engineVars, parVars, regVars, trigVars, execVars>>
    /\ oPc = "exec"
    /\ \E ok \in BOOLEAN :
        AfterExecuteStep(OResult("action", 0), IF ok THEN "" ELSE "exec failed")
    /\ UNCHANGED <<executions, metrics, oSteps, oIdx, oStatus, oCur, oVars,
                   oResults, oErr, oCtxDone, oTimedOut, oIter, oSub, oTries,
                   oDelayEnd, oCancel>>

(***************************************************************************)
(* executeDelayStep: a bad duration is an error; otherwise the select      *)
(* waits for the timer or for ctx.Done().                                  *)
(***************************************************************************)
ODispatchDelay ==
    /\ UNCHANGED <<engineVars, parVars, regVars, trigVars, execVars>>
    /\ AtStep("delay")
    /\ Dispatched
    /\ LET d == oSteps[oIdx].cfg IN
       IF d = "missing"
       THEN AfterExecuteStep(OResult("", 0), "duration not specified")
       ELSE IF ~ParseDurationOk(d)
       THEN AfterExecuteStep(OResult("", 0), "invalid duration format")
       ELSE /\ oPc' = "delay"
            /\ UNCHANGED <<oRetry, oPend>>
    /\ UNCHANGED <<executions, metrics, oSteps, oIdx, oStatus, oCur, oVars,
                   oResults, oErr, oCtxDone, oIter, oSub, oDelayEnd, oCancel>>

\* case <-time.After(duration)
ODelayTimer ==
    /\ UNCHANGED <<engineVars, parVars, regVars, trigVars, execVars>>
    /\ oPc = "delay"
    /\ AfterExecuteStep(OResult("delayed", 0), "")
    /\ oDelayEnd' = [oDelayEnd EXCEPT ![oIdx] = "timer"]
    /\ UNCHANGED <<executions, metrics, oSteps, oIdx, oStatus, oCur, oVars,
                   oResults, oErr, oCtxDone, oTimedOut, oIter, oSub, oTries,
                   oCancel>>

\* case <-ctx.Done(): ctx.Err() is returned
ODelayCtxDone ==
    /\ UNCHANGED <<engineVars, parVars, regVars, trigVars, execVars>>
    /\ oPc = "delay"
    /\ StepCtxDone
    /\ AfterExecuteStep(OResult("", 0), StepCtxErr)
    /\ oDelayEnd' = [oDelayEnd EXCEPT ![oIdx] = "ctx"]
    /\ UNCHANGED <<executions, metrics, oSteps, oIdx, oStatus, oCur, oVars,
                   oResults, oErr, oCtxDone, oTimedOut, oIter, oSub, oTries,
                   oCancel>>

(***************************************************************************)
(* executeSubWorkflow                                                      *)
(***************************************************************************)
\* subVariables: parent variables through InputMapping, then the static ones
SubVariables(sc, parentVars) ==
    LET mapped == {sv \in DOMAIN sc.input : sc.input[sv] \in DOMAIN parentVars}
    IN [k \in mapped \cup DOMAIN sc.statics |->
            IF k \in DOMAIN sc.statics THEN sc.statics[k]
            ELSE parentVars[sc.input[k]]]

\* subExecCtx as created: StepResults is an empty map
NewSubContext(sc, vs) ==
    [id |-> ExecId \o "_sub_" \o OStepId(oIdx), status |-> "running",
     async |-> sc.async, variables |-> vs, stepResults |-> EmptyMap]

\* the output mapping loop: parentVar <- subExecCtx.StepResults[subVar], if there
MapOutputs(sc, sub, parentVars) ==
    LET hit == {p \in DOMAIN sc.output : sc.output[p] \in DOMAIN sub.stepResults}
    IN [p \in DOMAIN parentVars \cup hit |->
            IF p \in hit THEN sub.stepResults[sc.output[p]] ELSE parentVars[p]]

\* the configuration is looked at and SubWorkflowCount is incremented under
\* metrics.mu
ODispatchSub ==
    /\ UNCHANGED <<engineVars, parVars, regVars, trigVars, execVars>>
    /\ AtStep("subflow")
    /\ Dispatched
    /\ LET sc == oSteps[oIdx].sub IN
       IF ~sc.present
       THEN /\ AfterExecuteStep(OResult("", 0), "subworkflow configuration missing")
            /\ UNCHANGED metrics
       ELSE /\ metrics' = [metrics EXCEPT !.subs = @ + 1]
            /\ oPc' = "subctx"
            /\ UNCHANGED <<oRetry, oPend>>
    /\ UNCHANGED <<executions, oSteps, oIdx, oStatus, oCur, oVars, oResults, oErr,
                   oCtxDone, oIter, oSub, oDelayEnd, oCancel>>

\* subExecCtx is made and appended to SubWorkflows under execCtx.mu; an asynchronous
\* sub-workflow has its goroutine started and "started" returned, a
\* synchronous one sleeps
OSubAppend ==
    /\ UNCHANGED <<engineVars, parVars, regVars, trigVars, execVars>>
    /\ oPc = "subctx"
    /\ LET sc == oSteps[oIdx].sub IN
       /\ oSub' = Append(oSub, NewSubContext(sc, SubVariables(sc, oVars)))
       /\ IF sc.async
          THEN AfterExecuteStep(OResult("started", 0), "")
          ELSE /\ oPc' = "sub"
               /\ UNCHANGED <<oRetry, oPend>>
    /\ UNCHANGED <<executions, metrics, oSteps, oIdx, oStatus, oCur, oVars,
                   oResults, oErr, oCtxDone, oTimedOut, oIter, oTries, oDelayEnd,
                   oCancel>>

\* the synchronous branch after its time.Sleep: the sub-context is completed,
\* the output mapping is applied to the parent's Variables, "completed" is
\* returned
OSubSyncDone ==
    /\ UNCHANGED <<engineVars, parVars, regVars, trigVars, execVars>>
    /\ oPc = "sub"
    /\ LET k == Len(oSub)
           sub == [oSub[k] EXCEPT !.status = "completed"]
       IN /\ oSub' = [oSub EXCEPT ![k] = sub]
          /\ oVars' = MapOutputs(oSteps[oIdx].sub, sub, oVars)
    /\ AfterExecuteStep(OResult("completed", 0), "")
    /\ UNCHANGED <<executions, metrics, oSteps, oIdx, oStatus, oCur, oResults,
                   oErr, oCtxDone, oTimedOut, oIter, oTries, oDelayEnd, oCancel>>

\* the goroutine of an asynchronous sub-workflow ends its sleep
OSubAsyncDone ==
    /\ UNCHANGED <<engineVars, parVars, regVars, trigVars, execVars>>
    /\ \E k \in DOMAIN oSub :
        /\ oSub[k].async
        /\ oSub[k].status = "running"
        /\ oSub' = [oSub EXCEPT ![k].status = "completed"]
    /\ UNCHANGED <<executions, metrics, oPc, oSteps, oIdx, oStatus, oCur, oVars,
                   oResults, oErr, oCtxDone, oTimedOut, oRetry, oIter, oTries,
                   oDelayEnd, oCancel, oPend>>

(***************************************************************************)
(* executeConditionStep: Config["condition"].(string) panics when the key  *)
(* is missing; executeSteps recovers and calls markExecutionFailed.        *)
(***************************************************************************)
ODispatchCondition ==
    /\ UNCHANGED <<engineVars, parVars, regVars, trigVars, execVars>>
    /\ AtStep("condition")
    /\ Dispatched
    /\ IF oSteps[oIdx].cfg = "missing"
       THEN /\ oPc' = "fail"
            /\ oPend' = [res |-> OResult("", 0), err |-> "execution panic"]
            /\ oRetry' = oRetry
       ELSE AfterExecuteStep(OResult("condition", 0), "")
    /\ UNCHANGED <<executions, metrics, oSteps, oIdx, oStatus, oCur, oVars,
                   oResults, oErr, oCtxDone, oIter, oSub, oDelayEnd, oCancel>>

(***************************************************************************)
(* executeLoopStep                                                         *)
(***************************************************************************)
ODispatchLoop ==
    /\ UNCHANGED <<engineVars, parVars, regVars, trigVars, execVars>>
    /\ AtStep("loop")
    /\ Dispatched
    /\ oIter' = NoLoop
    /\ oPc' = "iter"
    /\ UNCHANGED <<executions, metrics, oSteps, oIdx, oStatus, oCur, oVars,
                   oResults, oErr, oCtxDone, oRetry, oSub, oDelayEnd, oCancel,
                   oPend>>

\* one pass of `for iteration < maxIterations`: the body, then the ctx check,
\* which returns ctx.Err()
OLoopIterate ==
    /\ UNCHANGED <<engineVars, parVars, regVars, trigVars, execVars>>
    /\ oPc = "iter"
    /\ LoopGoesOn(oIter, oSteps[oIdx])
    /\ oIter' = [iteration |-> oIter.iteration + 1,
                 results |-> Append(oIter.results, oIter.iteration)]
    /\ IF StepCtxDone
       THEN AfterExecuteStep(OResult("", 0), StepCtxErr)
       ELSE UNCHANGED <<oPc, oRetry, oPend>>
    /\ UNCHANGED <<executions, metrics, oSteps, oIdx, oStatus, oCur, oVars,
                   oResults, oErr, oCtxDone, oTimedOut, oSub, oTries, oDelayEnd,
                   oCancel>>

\* the loop is left: iterations and results are returned
OLoopExit ==
    /\ UNCHANGED <<engineVars, parVars, regVars, trigVars, execVars>>
    /\ oPc = "iter"
    /\ ~LoopGoesOn(oIter, oSteps[oIdx])
    /\ AfterExecuteStep(LoopResult(oIter), "")
    /\ UNCHANGED <<executions, metrics, oSteps, oIdx, oStatus, oCur, oVars,
                   oResults, oErr, oCtxDone, oTimedOut, oIter, oSub, oTries,
                   oDelayEnd, oCancel>>

(***************************************************************************)
(* retryStep: each attempt waits in a select, then runs the step through   *)
(* the step executor.                                                      *)
(***************************************************************************)
\* case <-time.After(delay): stepExecutor.ExecuteStep is called ...
ORetryFire ==
    /\ UNCHANGED <<engineVars, parVars, regVars, trigVars, execVars>>
    /\ oPc = "retrywait"
    /\ oTries' = [oTries EXCEPT ![oIdx] = @ + 1]
    /\ oPc' = "retryexec"
    /\ UNCHANGED <<executions, metrics, oSteps, oIdx, oStatus, oCur, oVars,
                   oResults, oErr, oCtxDone, oTimedOut, oRetry, oIter, oSub,
                   oDelayEnd, oCancel, oPend>>

\* ... and returns: a result ends retryStep, an error at the last attempt
\* ends it with "failed after retries", an earlier one goes round the loop
ORetryReturn ==
    /\ UNCHANGED <<engineVars, parVars, regVars, trigVars, execVars>>
    /\ oPc = "retryexec"
    /\ \E ok \in BOOLEAN :
        IF ok
        THEN /\ oPc' = "store"
             /\ oPend' = [res |-> OResult("action", 0), err |-> ""]
             /\ oRetry' = 0
        ELSE IF oRetry = oSteps[oIdx].retry
        THEN /\ oPc' = "fail"
             /\ oPend' = [res |-> OResult("", 0), err |-> "failed after retries"]
             /\ oRetry' = 0
        ELSE /\ oPc' = "retrywait"
             /\ oRetry' = oRetry + 1
             /\ oPend' = oPend
    /\ UNCHANGED <<executions, metrics, oSteps, oIdx, oStatus, oCur, oVars,
                   oResults, oErr, oCtxDone, oTimedOut, oIter, oSub, oTries,
                   oDelayEnd, oCancel>>

\* case <-ctx.Done(): retryStep returns ctx.Err() of the caller's ctx
ORetryCtxDone ==
    /\ UNCHANGED <<engineVars, parVars, regVars, trigVars, execVars>>
    /\ oPc = "retrywait"
    /\ oCtxDone
    /\ oPc' = "fail"
    /\ oPend' = [res |-> OResult("", 0), err |-> "context canceled"]
    /\ oRetry' = 0
    /\ UNCHANGED <<executions, metrics, oSteps, oIdx, oStatus, oCur, oVars,
                   oResults, oErr, oCtxDone, oTimedOut, oIter, oSub, oTries,
                   oDelayEnd, oCancel>>

(***************************************************************************)
(* The result is stored under execCtx.mu and the loop goes on.             *)
(***************************************************************************)
OStoreResult ==
    /\ UNCHANGED <<engineVars, parVars, regVars, trigVars, execVars>>
    /\ oPc = "store"
    /\ oResults' = MapPut(oResults, OStepId(oIdx), oPend.res)
    /\ oIdx' = oIdx + 1
    /\ oPc' = "loop"
    /\ oPend' = NoPend
    /\ UNCHANGED <<executions, metrics, oSteps, oStatus, oCur, oVars, oErr,
                   oCtxDone, oTimedOut, oRetry, oIter, oSub, oTries, oDelayEnd,
                   oCancel>>

(***************************************************************************)
(* markExecutionFailed: Status and ErrorDetails under execCtx.mu, then     *)
(* FailedExecutions under metrics.mu; executeSteps returns.                *)
(***************************************************************************)
OMarkFailed ==
    /\ UNCHANGED <<engineVars, parVars, regVars, trigVars, execVars>>
    /\ oPc = "fail"
    /\ oStatus' = "failed"
    /\ oErr' = oPend.err
    /\ oPc' = "failcount"
    /\ oPend' = NoPend
    /\ UNCHANGED <<executions, metrics, oSteps, oIdx, oCur, oVars, oResults,
                   oCtxDone, oTimedOut, oRetry, oIter, oSub, oTries, oDelayEnd,
                   oCancel>>

OCountFailed ==
    /\ UNCHANGED <<engineVars, parVars, regVars, trigVars, execVars>>
    /\ oPc = "failcount"
    /\ metrics' = [metrics EXCEPT !.failed = @ + 1]
    /\ oPc' = "done"
    /\ UNCHANGED <<executions, oSteps, oIdx, oStatus, oCur, oVars, oResults, oErr,
                   oCtxDone, oTimedOut, oRetry, oIter, oSub, oTries, oDelayEnd,
                   oCancel, oPend>>

(***************************************************************************)
(* After the for loop, markExecutionCompleted: Status under execCtx.mu,    *)
(* then CompletedExecutions under metrics.mu.                              *)
(***************************************************************************)
OFinish ==
    /\ UNCHANGED <<engineVars, parVars, regVars, trigVars, execVars>>
    /\ oPc = "loop"
    /\ oIdx > Len(oSteps)
    /\ oStatus' = "completed"
    /\ oPc' = "donecount"
    /\ UNCHANGED <<executions, metrics, oSteps, oIdx, oCur, oVars, oResults, oErr,
                   oCtxDone, oTimedOut, oRetry, oIter, oSub, oTries, oDelayEnd,
                   oCancel, oPend>>

OCountCompleted ==
    /\ UNCHANGED <<engineVars, parVars, regVars, trigVars, execVars>>
    /\ oPc = "donecount"
    /\ metrics' = [metrics EXCEPT !.completed = @ + 1]
    /\ oPc' = "done"
    /\ UNCHANGED <<executions, oSteps, oIdx, oStatus, oCur, oVars, oResults, oErr,
                   oCtxDone, oTimedOut, oRetry, oIter, oSub, oTries, oDelayEnd,
                   oCancel, oPend>>

(***************************************************************************)
(* Instance control and the environment.                                   *)
(***************************************************************************)
ControlIds == {ExecId, "exec_unknown"}

\* CancelExecution: looks the id up and calls markExecutionCancelled
OCancelExecution ==
    /\ UNCHANGED <<engineVars, parVars, regVars, trigVars, execVars>>
    /\ oPc # "none"
    /\ \E id \in ControlIds :
        IF id \in executions
        THEN /\ oStatus' = "cancelled"
             /\ oCancel' = IF ~oCancel.acked /\ oStatus = "running"
                           THEN [acked |-> TRUE, pc |-> oPc, started |-> OStarted]
                           ELSE oCancel
        ELSE UNCHANGED <<oStatus, oCancel>>
    /\ UNCHANGED <<executions, metrics, oPc, oSteps, oIdx, oCur, oVars, oResults,
                   oErr, oCtxDone, oTimedOut, oRetry, oIter, oSub, oTries,
                   oDelayEnd, oPend>>

\* PauseExecution
OPauseExecution ==
    /\ UNCHANGED <<engineVars, parVars, regVars, trigVars, execVars>>
    /\ oPc # "none"
    /\ \E id \in ControlIds :
        IF id \in executions
        THEN oStatus' = "paused"
        ELSE UNCHANGED oStatus
    /\ UNCHANGED <<executions, metrics, oPc, oSteps, oIdx, oCur, oVars, oResults,
                   oErr, oCtxDone, oTimedOut, oRetry, oIter, oSub, oTries,
                   oDelayEnd, oCancel, oPend>>

\* ResumeExecution
OResumeExecution ==
    /\ UNCHANGED <<engineVars, parVars, regVars, trigVars, execVars>>
    /\ oPc # "none"
    /\ \E id \in ControlIds :
        IF id \in executions /\ oStatus = "paused"
        THEN oStatus' = "running"
        ELSE UNCHANGED oStatus
    /\ UNCHANGED <<executions, metrics, oPc, oSteps, oIdx, oCur, oVars, oResults,
                   oErr, oCtxDone, oTimedOut, oRetry, oIter, oSub, oTries,
                   oDelayEnd, oCancel, oPend>>

\* the caller of ExecuteWorkflow cancels the ctx it passed
OCtxCancel ==
    /\ UNCHANGED <<engineVars, parVars, regVars, trigVars, execVars>>
    /\ oPc \notin {"none", "done"}
    /\ ~oCtxDone
    /\ oCtxDone' = TRUE
    /\ UNCHANGED <<executions, metrics, oPc, oSteps, oIdx, oStatus, oCur, oVars,
                   oResults, oErr, oTimedOut, oRetry, oIter, oSub, oTries,
                   oDelayEnd, oCancel, oPend>>

\* the timer of the step's context.WithTimeout fires while the step runs and
\* before the caller's ctx is cancelled
OStepTimeout ==
    /\ UNCHANGED <<engineVars, parVars, regVars, trigVars, execVars>>
    /\ oPc \in {"exec", "delay", "subctx", "sub", "iter"}
    /\ oSteps[oIdx].timeout
    /\ ~oTimedOut
    /\ ~oCtxDone
    /\ oTimedOut' = TRUE
    /\ UNCHANGED <<executions, metrics, oPc, oSteps, oIdx, oStatus, oCur, oVars,
                   oResults, oErr, oCtxDone, oRetry, oIter, oSub, oTries,
                   oDelayEnd, oCancel, oPend>>

NextOrch ==
    \/ OrchExecuteWorkflow
    \/ OCountTotal
    \/ OGo
    \/ OLoopCancelled
    \/ OSetCurrentStep
    \/ ODispatchAction
    \/ OExecReturn
    \/ ODispatchDelay
    \/ ODelayTimer
    \/ ODelayCtxDone
    \/ ODispatchSub
    \/ OSubAppend
    \/ OSubSyncDone
    \/ OSubAsyncDone
    \/ ODispatchCondition
    \/ ODispatchLoop
    \/ OLoopIterate
    \/ OLoopExit
    \/ ORetryFire
    \/ ORetryReturn
    \/ ORetryCtxDone
    \/ OStoreResult
    \/ OMarkFailed
    \/ OCountFailed
    \/ OFinish
    \/ OCountCompleted
    \/ OCancelExecution
    \/ OPauseExecution
    \/ OResumeExecution
    \/ OCtxCancel
    \/ OStepTimeout

\* an execution of a workflow of loop steps
NextLoop ==
    \/ OrchExecuteLoops
    \/ OCountTotal
    \/ OGo
    \/ OLoopCancelled
    \/ OSetCurrentStep
    \/ ODispatchLoop
    \/ OLoopIterate
    \/ OLoopExit
    \/ OStoreResult
    \/ OMarkFailed
    \/ OCountFailed
    \/ OFinish
    \/ OCountCompleted
    \/ OCtxCancel
    \/ OStepTimeout

(***************************************************************************)
(* Orchestrator.executeParallelStep: one call.                             *)
(***************************************************************************)
JoinTypes == {"all", "any", "first", "custom"}

\* step.Parallel == nil
NoPar == [present |-> FALSE, n |-> 0, subs |-> <<>>, joinType |-> "all",
          failFast |-> FALSE, maxParallel |-> 0, timeout |-> FALSE,
          parent |-> EmptyMap, vars |-> <<>>, stores |-> FALSE]

\* ParallelExecution values: n branches with distinct ids, branch b with
\* subs[b] sub-steps; timeout tells whether parallel.Timeout > 0.  parent is
\* execCtx.Variables at the call, vars[b] is the Variables of branch b, and
\* stores tells whether the step executor keeps an output in the Variables of
\* the context it is handed.
ParConfigs ==
    {NoPar} \cup
    UNION {{[present |-> TRUE, n |-> n, subs |-> f, joinType |-> j,
             failFast |-> ff, maxParallel |-> m, timeout |-> t,
             parent |-> EmptyMap, vars |-> [b \in 1..n |-> EmptyMap],
             stores |-> FALSE] :
                f \in [1..n -> 0..MaxSub], j \in JoinTypes, ff \in BOOLEAN,
                m \in (-1)..n, t \in BOOLEAN} : n \in 1..MaxBranches}

BranchId(b) == "b" \o ToString(b)

Branches == 1..par.n

\* Variables of the parent context and of a branch
ParentVariables == {EmptyMap, [x |-> "parent", y |-> "parent"]}

BranchVariables == {EmptyMap, [x |-> "branch", z |-> "branch"]}

\* the key and the map under which the parent's Variables are kept
ParentRef == "parent"

\* a mutant: the merge writes the branch's variables into the parent's map
\* and hands that map out
mergeVariablesRef_Parent(b) == ParentRef

\* mergeVariables, result := make(map[string]interface{}): the merged map
\* is a new one, named here after the branch it is made for
mergeVariablesRef(b) == BranchId(b)

\* mergeVariables, the two loops: the parent's entries, then the child's
mergeVariables(parent, child) ==
    [k \in DOMAIN parent \cup DOMAIN child |->
        IF k \in DOMAIN child THEN child[k] ELSE parent[k]]

\* a mutant: the semaphore has one slot more than MaxParallel
SemCap_OneMore == par.maxParallel + 1

\* cap(semaphore)
SemCap == par.maxParallel

NoPRet == [returned |-> FALSE, err |-> NoErr, branch |-> ""]

InitPar ==
    /\ par = NoPar
    /\ pPc = "idle"
    /\ pSpawned = 0
    /\ bPc = <<>>
    /\ bStep = <<>>
    /\ bResult = <<>>
    /\ pResults = EmptyMap
    /\ pErrors = EmptyMap
    /\ pSem = 0
    /\ pCtxDone = FALSE
    /\ pCtxErr = ""
    /\ pRet = NoPRet
    /\ pFirstErr = ""
    /\ pLate = FALSE
    /\ pHeap = EmptyMap

(***************************************************************************)
(* The call up to the for loop over the branches.  A nil configuration is  *)
(* an error; make(chan struct{}, n) with n < 0 panics; MaxParallel <= 0 is *)
(* replaced by the number of branches.                                     *)
(***************************************************************************)
EnterParallelStep(c) ==
    /\ UNCHANGED <<engineVars, orchButMetrics, regVars, trigVars, execVars>>
    /\ pPc = "idle"
    /\ IF ~c.present
       THEN /\ pPc' = "returned"
            /\ pRet' = [returned |-> TRUE, branch |-> "",
                        err |-> <<"parallel configuration missing">>]
            /\ UNCHANGED <<par, bPc, bStep, bResult, metrics, pHeap>>
       ELSE IF c.maxParallel < 0
       THEN /\ pPc' = "panicked"
            /\ par' = c
            /\ pHeap' = MapPut(EmptyMap, ParentRef, c.parent)
            /\ UNCHANGED <<pRet, bPc, bStep, bResult, metrics>>
       ELSE /\ pPc' = "spawn"
            /\ par' = [c EXCEPT !.maxParallel = IF @ <= 0 THEN c.n ELSE @]
            /\ bPc' = [b \in 1..c.n |-> "unborn"]
            /\ bStep' = [b \in 1..c.n |-> 1]
            /\ bResult' = [b \in 1..c.n |-> {}]
            /\ metrics' = [metrics EXCEPT !.parallels = @ + 1]
            /\ pHeap' = MapPut(EmptyMap, ParentRef, c.parent)
            /\ pRet' = pRet
    /\ UNCHANGED <<pSpawned, pResults, pErrors, pSem, pCtxDone, pCtxErr, pFirstErr, pLate>>

\* a call with any configuration
PExecuteParallelStep ==
    /\ pPc = "idle"
    /\ \E c \in ParConfigs : EnterParallelStep(c)

\* the configurations with a cap MaxParallel > 0, join type all, no timeout
\* and branches of equal length
CappedConfigs ==
    {c \in ParConfigs :
        /\ c.present /\ c.maxParallel > 0 /\ c.joinType = "all" /\ ~c.timeout
        /\ \A b \in 1..c.n : c.subs[b] = c.subs[1]}

\* a call with a cap on the branches running at the same time
PExecuteCapped ==
    /\ pPc = "idle"
    /\ \E c \in CappedConfigs : EnterParallelStep(c)

\* one pass of the for loop: wg.Add(1) and the branch goroutine is started
PSpawn ==
    /\ UNCHANGED <<engineVars, orchVars, regVars, trigVars, execVars>>
    /\ pPc = "spawn"
    /\ pSpawned' = pSpawned + 1
    /\ bPc' = [bPc EXCEPT ![pSpawned + 1] = "start"]
    /\ pPc' = IF pSpawned + 1 = par.n THEN "join" ELSE "spawn"
    /\ UNCHANGED <<par, bStep, bResult, pResults, pErrors, pSem, pCtxDone, pCtxErr, pRet,
                   pFirstErr, pLate, pHeap>>

(***************************************************************************)
(* A branch goroutine.  On its return the deferred calls run: the slot of  *)
(* the semaphore is given back, then wg.Done is called.                    *)
(***************************************************************************)
\* the process has not been stopped by the runtime
Alive == pPc # "crashed"

\* semaphore <- struct{}{}; the branch condition holds (evaluateCondition is
\* always true) and the branch context is created, its Variables being
\* mergeVariables(execCtx.Variables, b.Variables)
BAcquire(b) ==
    /\ UNCHANGED <<engineVars, orchVars, regVars, trigVars, execVars>>
    /\ Alive
    /\ bPc[b] = "start"
    /\ pSem < SemCap
    /\ pSem' = pSem + 1
    /\ bPc' = [bPc EXCEPT ![b] = "run"]
    /\ pHeap' = MapPut(pHeap, mergeVariablesRef(b),
                       mergeVariables(pHeap[ParentRef], par.vars[b]))
    /\ UNCHANGED <<par, pPc, pSpawned, bStep, bResult, pResults, pErrors,
                   pCtxDone, pCtxErr, pRet, pFirstErr, pLate>>

\* top of the sub-step loop with branchCtx done: branchCtx.Err() is recorded
\* under mu and the goroutine returns
BCtxError(b) ==
    /\ UNCHANGED <<engineVars, orchVars, regVars, trigVars, execVars>>
    /\ Alive
    /\ bPc[b] = "run"
    /\ bStep[b] <= par.subs[b]
    /\ pCtxDone
    /\ pErrors' = MapPut(pErrors, BranchId(b), pCtxErr)
    /\ bPc' = [bPc EXCEPT ![b] = "exit"]
    /\ UNCHANGED <<par, pPc, pSpawned, bStep, bResult, pResults, pSem, pCtxDone,
                   pCtxErr, pRet, pFirstErr, pLate, pHeap>>

\* top of the sub-step loop otherwise: executeStep is called for the sub-step
BStartStep(b) ==
    /\ UNCHANGED <<engineVars, orchVars, regVars, trigVars, execVars>>
    /\ Alive
    /\ bPc[b] = "run"
    /\ bStep[b] <= par.subs[b]
    /\ ~pCtxDone
    /\ bPc' = [bPc EXCEPT ![b] = "exec"]
    /\ pLate' = (pLate \/ pFirstErr # "")
    /\ UNCHANGED <<par, pPc, pSpawned, bStep, bResult, pResults, pErrors, pSem,
                   pCtxDone, pCtxErr, pRet, pFirstErr, pHeap>>

\* executeStep returns for the sub-step: a result is kept in branchResult;
\* with FailFast an error is recorded under mu and the goroutine returns
BStepReturn(b) ==
    /\ UNCHANGED <<engineVars, orchVars, regVars, trigVars, execVars>>
    /\ Alive
    /\ bPc[b] = "exec"
    /\ \E ok \in BOOLEAN :
        IF ok
        THEN /\ bResult' = [bResult EXCEPT ![b] = @ \cup {bStep[b]}]
             /\ bStep' = [bStep EXCEPT ![b] = @ + 1]
             /\ bPc' = [bPc EXCEPT ![b] = "run"]
             /\ pHeap' = IF par.stores
                         THEN [pHeap EXCEPT ![mergeVariablesRef(b)] =
                                    MapPut(@, "out", BranchId(b))]
                         ELSE pHeap
             /\ UNCHANGED <<pErrors, pSem, pFirstErr>>
        ELSE IF par.failFast
        THEN /\ pErrors' = MapPut(pErrors, BranchId(b), "step failed")
             /\ pFirstErr' = IF pFirstErr = "" THEN BranchId(b) ELSE pFirstErr
             /\ bPc' = [bPc EXCEPT ![b] = "exit"]
             /\ UNCHANGED <<bResult, bStep, pSem, pHeap>>
        ELSE /\ bStep' = [bStep EXCEPT ![b] = @ + 1]
             /\ bPc' = [bPc EXCEPT ![b] = "run"]
             /\ UNCHANGED <<bResult, pErrors, pSem, pFirstErr, pHeap>>
    /\ UNCHANGED <<par, pPc, pSpawned, pResults, pCtxDone, pCtxErr, pRet, pLate>>

\* after the sub-step loop: results[b.ID] = branchResult under mu, and the
\* goroutine returns
BFinish(b) ==
    /\ UNCHANGED <<engineVars, orchVars, regVars, trigVars, execVars>>
    /\ Alive
    /\ bPc[b] = "run"
    /\ bStep[b] > par.subs[b]
    /\ pResults' = MapPut(pResults, BranchId(b), bResult[b])
    /\ bPc' = [bPc EXCEPT ![b] = "exit"]
    /\ UNCHANGED <<par, pPc, pSpawned, bStep, bResult, pErrors, pSem, pCtxDone,
                   pCtxErr, pRet, pFirstErr, pLate, pHeap>>

\* the first deferred call of a returning goroutine: <-semaphore
BRelease(b) ==
    /\ UNCHANGED <<engineVars, orchVars, regVars, trigVars, execVars>>
    /\ Alive
    /\ bPc[b] = "exit"
    /\ pSem' = pSem - 1
    /\ bPc' = [bPc EXCEPT ![b] = "freed"]
    /\ UNCHANGED <<par, pPc, pSpawned, bStep, bResult, pResults, pErrors,
                   pCtxDone, pCtxErr, pRet, pFirstErr, pLate, pHeap>>

\* the second one: wg.Done()
BDone(b) ==
    /\ UNCHANGED <<engineVars, orchVars, regVars, trigVars, execVars>>
    /\ Alive
    /\ bPc[b] = "freed"
    /\ bPc' = [bPc EXCEPT ![b] = "done"]
    /\ UNCHANGED <<par, pPc, pSpawned, bStep, bResult, pResults, pErrors, pSem,
                   pCtxDone, pCtxErr, pRet, pFirstErr, pLate, pHeap>>

(***************************************************************************)
(* The join of the calling goroutine.                                      *)
(***************************************************************************)
\* a mutant: the wait ends as soon as one branch is done
WaitGroupDone_Any == \E b \in Branches : bPc[b] = "done"

\* wg.Wait() returns: every branch goroutine has called wg.Done
WaitGroupDone == \A b \in Branches : bPc[b] = "done"

\* the ticker case of the any / first loops lets the join go
TickReleases ==
    IF par.joinType = "any"
    THEN DOMAIN pResults # {} \/ DOMAIN pErrors # {}
    ELSE DOMAIN pResults # {}

\* executeParallelStep returns: the deferred cancel of a WithTimeout context
\* runs
Returning ==
    /\ pPc' = "returned"
    /\ pCtxDone' = (pCtxDone \/ par.timeout)
    /\ pCtxErr' = IF pCtxDone THEN pCtxErr
                  ELSE IF par.timeout THEN "context canceled" ELSE ""

\* label completed with no branch goroutine running: with errors and
\* FailFast the first error the range over the map yields is returned;
\* otherwise the maps are.  The deferred cancel of a WithTimeout context runs
\* as the function returns.
Completed ==
    /\ Returning
    /\ IF DOMAIN pErrors # {} /\ par.failFast
       THEN \E id \in DOMAIN pErrors :
                pRet' = [returned |-> TRUE, branch |-> id,
                         err |-> <<"branch ", id, " failed: ", pErrors[id]>>]
       ELSE pRet' = [returned |-> TRUE, branch |-> "", err |-> NoErr]

\* case JoinAll and default: wg.Wait()
PJoinWait ==
    /\ UNCHANGED <<engineVars, orchVars, regVars, trigVars, execVars>>
    /\ pPc = "join"
    /\ par.joinType \in {"all", "custom"}
    /\ WaitGroupDone
    /\ Completed
    /\ UNCHANGED <<par, pSpawned, bPc, bStep, bResult, pResults, pErrors, pSem,
                   pFirstErr, pLate, pHeap>>

\* case <-done of the any / first loops
PJoinDone ==
    /\ UNCHANGED <<engineVars, orchVars, regVars, trigVars, execVars>>
    /\ pPc = "join"
    /\ par.joinType \in {"any", "first"}
    /\ WaitGroupDone
    /\ Completed
    /\ UNCHANGED <<par, pSpawned, bPc, bStep, bResult, pResults, pErrors, pSem,
                   pFirstErr, pLate, pHeap>>

\* case <-ticker.C of the any / first loops, when the check under mu lets the
\* join go: goto completed
PJoinTick ==
    /\ UNCHANGED <<engineVars, orchVars, regVars, trigVars, execVars>>
    /\ pPc = "join"
    /\ par.joinType \in {"any", "first"}
    /\ TickReleases
    /\ pPc' = "completed"
    /\ UNCHANGED <<par, pSpawned, bPc, bStep, bResult, pResults, pErrors, pSem,
                   pCtxDone, pCtxErr, pRet, pFirstErr, pLate, pHeap>>

\* branch b is about to write the errors map
WritesErrors(b) ==
    \/ bPc[b] = "exec" /\ par.failFast
    \/ bPc[b] = "run" /\ bStep[b] <= par.subs[b] /\ pCtxDone

\* label completed after the ticker case: len(errors) and the range run
\* without mu while branch goroutines may still write the map.  The call
\* returns what it read: the map as it stands, or, with the write of a
\* branch under way, that branch's key with no error stored yet (it prints
\* as <nil>)
PCompleted ==
    /\ UNCHANGED <<engineVars, orchVars, regVars, trigVars, execVars>>
    /\ pPc = "completed"
    /\ \/ Completed
       \/ /\ par.failFast
          /\ Returning
          /\ \E b \in Branches :
                /\ WritesErrors(b)
                /\ pRet' = [returned |-> TRUE, branch |-> BranchId(b),
                            err |-> <<"branch ", BranchId(b), " failed: ",
                                      "<nil>">>]
    /\ UNCHANGED <<par, pSpawned, bPc, bStep, bResult, pResults, pErrors, pSem,
                   pFirstErr, pLate, pHeap>>

\* ... or branch b writes errors while len(errors) and the range over the
\* map run without mu, and the runtime stops the process: concurrent map
\* iteration and map write.  The write under way counts for len, so the
\* range is entered also when the map was empty before it.
PFatal ==
    /\ UNCHANGED <<engineVars, orchVars, regVars, trigVars, execVars>>
    /\ pPc = "completed"
    /\ par.failFast
    /\ \E b \in Branches : WritesErrors(b)
    /\ pPc' = "crashed"
    /\ UNCHANGED <<par, pSpawned, bPc, bStep, bResult, pResults, pErrors, pSem,
                   pCtxDone, pCtxErr, pRet, pFirstErr, pLate, pHeap>>

\* case <-branchCtx.Done() of the any / first loops: branchCtx.Err() is
\* returned
PJoinCtxDone ==
    /\ UNCHANGED <<engineVars, orchVars, regVars, trigVars, execVars>>
    /\ pPc = "join"
    /\ par.joinType \in {"any", "first"}
    /\ pCtxDone
    /\ pPc' = "returned"
    /\ pRet' = [returned |-> TRUE, branch |-> "", err |-> <<pCtxErr>>]
    /\ UNCHANGED <<par, pSpawned, bPc, bStep, bResult, pResults, pErrors, pSem,
                   pCtxDone, pCtxErr, pFirstErr, pLate, pHeap>>

\* the ctx of the call is cancelled: by its owner at any time, or by the
\* deferred cancel of executeStep's WithTimeout once the call has returned.
\* Branch goroutines that outlive the call go on reading it.
PCtxCancel ==
    /\ UNCHANGED <<engineVars, orchVars, regVars, trigVars, execVars>>
    /\ pPc \in {"spawn", "join", "completed", "returned"}
    /\ ~pCtxDone
    /\ pCtxDone' = TRUE
    /\ pCtxErr' = "context canceled"
    /\ UNCHANGED <<par, pPc, pSpawned, bPc, bStep, bResult, pResults, pErrors,
                   pSem, pRet, pFirstErr, pLate, pHeap>>

\* the timer of context.WithTimeout(ctx, parallel.Timeout) fires first
PTimeout ==
    /\ UNCHANGED <<engineVars, orchVars, regVars, trigVars, execVars>>
    /\ pPc \in {"spawn", "join", "completed"}
    /\ par.timeout
    /\ ~pCtxDone
    /\ pCtxDone' = TRUE
    /\ pCtxErr' = "context deadline exceeded"
    /\ UNCHANGED <<par, pPc, pSpawned, bPc, bStep, bResult, pResults, pErrors,
                   pSem, pRet, pFirstErr, pLate, pHeap>>

NextPar ==
    \/ PExecuteParallelStep
    \/ PSpawn
    \/ \E b \in DOMAIN bPc : BAcquire(b)
    \/ \E b \in DOMAIN bPc : BCtxError(b)
    \/ \E b \in DOMAIN bPc : BStartStep(b)
    \/ \E b \in DOMAIN bPc : BStepReturn(b)
    \/ \E b \in DOMAIN bPc : BFinish(b)
    \/ \E b \in DOMAIN bPc : BRelease(b)
    \/ \E b \in DOMAIN bPc : BDone(b)
    \/ PJoinWait
    \/ PJoinDone
    \/ PJoinTick
    \/ PCompleted
    \/ PFatal
    \/ PJoinCtxDone
    \/ PCtxCancel
    \/ PTimeout

\* the configurations with join type all
JoinAllConfigs == {c \in ParConfigs : c.present /\ c.joinType = "all"}

\* a call with join type all
PExecuteJoinAll ==
    /\ pPc = "idle"
    /\ \E c \in JoinAllConfigs : EnterParallelStep(c)

\* a parallel step with join type all: the call, the branch goroutines, the
\* wait for all of them
NextJoinAll ==
    \/ PExecuteJoinAll
    \/ PSpawn
    \/ \E b \in DOMAIN bPc : BAcquire(b)
    \/ \E b \in DOMAIN bPc : BCtxError(b)
    \/ \E b \in DOMAIN bPc : BStartStep(b)
    \/ \E b \in DOMAIN bPc : BStepReturn(b)
    \/ \E b \in DOMAIN bPc : BFinish(b)
    \/ \E b \in DOMAIN bPc : BRelease(b)
    \/ \E b \in DOMAIN bPc : BDone(b)
    \/ PJoinWait
    \/ PCtxCancel
    \/ PTimeout

\* the configurations with variables: join type all, no cap, no timeout,
\* branches of equal length, a step executor that stores its output
MergeConfigs ==
    UNION {{[present |-> TRUE, n |-> n, subs |-> [b \in 1..n |-> k],
             joinType |-> "all", failFast |-> ff, maxParallel |-> 0,
             timeout |-> FALSE, parent |-> pv, vars |-> bv, stores |-> TRUE] :
                k \in 0..MaxSub, ff \in BOOLEAN,
                pv \in ParentVariables, bv \in [1..n -> BranchVariables]} :
           n \in 1..MaxBranches}

\* a call with variables in the parent context and in the branches
PExecuteMerging ==
    /\ pPc = "idle"
    /\ \E c \in MergeConfigs : EnterParallelStep(c)

\* a parallel step with variables: the call, the branch goroutines, the join
NextMerge ==
    \/ PExecuteMerging
    \/ PSpawn
    \/ \E b \in DOMAIN bPc : BAcquire(b)
    \/ \E b \in DOMAIN bPc : BCtxError(b)
    \/ \E b \in DOMAIN bPc : BStartStep(b)
    \/ \E b \in DOMAIN bPc : BStepReturn(b)
    \/ \E b \in DOMAIN bPc : BFinish(b)
    \/ \E b \in DOMAIN bPc : BRelease(b)
    \/ \E b \in DOMAIN bPc : BDone(b)
    \/ PJoinWait
    \/ PCtxCancel

\* a parallel step with a cap: the call, the branch goroutines and the join
NextCapped ==
    \/ PExecuteCapped
    \/ PSpawn
    \/ \E b \in DOMAIN bPc : BAcquire(b)
    \/ \E b \in DOMAIN bPc : BCtxError(b)
    \/ \E b \in DOMAIN bPc : BStartStep(b)
    \/ \E b \in DOMAIN bPc : BStepReturn(b)
    \/ \E b \in DOMAIN bPc : BFinish(b)
    \/ \E b \in DOMAIN bPc : BRelease(b)
    \/ \E b \in DOMAIN bPc : BDone(b)
    \/ PJoinWait
    \/ PCtxCancel

(***************************************************************************)
(* Engine: RegisterWorkflow, GetWorkflowForEvent, LoadWorkflowFromYAML.    *)
(***************************************************************************)
\* a step of a definition: Retry is nil or a RetryConfig
RegStep(name, action, retry) == [name |-> name, action |-> action, retry |-> retry]

RegRetry(max, backoff) == [present |-> TRUE, max |-> max, backoff |-> backoff]

\* the step lists of the definitions: none, a plain step, a step without name
\* or action, retries with max 0, 1 and MaxK and with every kind of backoff,
\* and a valid step followed by an invalid one
RegStepLists ==
    { <<>>,
      <<RegStep("s1", "log.info", NoRetry)>>,
      <<RegStep("", "log.info", NoRetry)>>,
      <<RegStep("s1", "", NoRetry)>>,
      <<RegStep("s1", "log.info", RegRetry(0, ""))>>,
      <<RegStep("s1", "log.info", RegRetry(1, ""))>>,
      <<RegStep("s1", "log.info", RegRetry(1, "fixed"))>>,
      <<RegStep("s1", "log.info", RegRetry(1, "random"))>>,
      <<RegStep("s1", "log.info", RegRetry(1, "linear"))>>,
      <<RegStep("s1", "log.info", RegRetry(MaxK, "exponential"))>>,
      <<RegStep("s1", "log.info", NoRetry), RegStep("s2", "", NoRetry)>> }

RegWorkflow(name, event, steps) == [name |-> name, event |-> event, steps |-> steps]

OkSteps == <<RegStep("s1", "log.info", NoRetry)>>

\* *Workflow values: every name and event with a plain step, every step list
\* under one name and event
RegDefs ==
    {RegWorkflow(n, e, OkSteps) : n \in {"", "A", "B"}, e \in {"", "e1", "e2"}}
    \cup {RegWorkflow("A", "e1", l) : l \in RegStepLists}

\* the workflows handed to RegisterWorkflow: valid ones under two names and
\* two event types, and ones without name, event or steps or with a backoff
\* that validateWorkflow refuses
RegCalls ==
    {RegWorkflow(n, e, OkSteps) : n \in {"A", "B"}, e \in {"e1", "e2"}}
    \cup {RegWorkflow("", "e1", OkSteps), RegWorkflow("A", "", OkSteps),
          RegWorkflow("A", "e1", <<>>),
          RegWorkflow("A", "e1", <<RegStep("s1", "log.info", RegRetry(1, "fixed"))>>)}

\* the documents handed to LoadWorkflowFromYAML: the YAML of a definition, or
\* bytes that are no YAML mapping
YamlInputs ==
    {[parses |-> TRUE, wf |-> w] : w \in RegDefs}
    \cup {[parses |-> FALSE, wf |-> RegWorkflow("", "", <<>>)]}

\* the event types looked up
EventTypes == {"", "e1", "e2", "e3"}

\* the error of the first failing step of a list, "" when there is none
RECURSIVE validateSteps(_, _)
validateSteps(steps, i) ==
    IF i > Len(steps) THEN ""
    ELSE IF steps[i].name = "" THEN "name is required"
    ELSE IF steps[i].action = "" THEN "action is required"
    ELSE IF steps[i].retry.present /\ steps[i].retry.max < 1
         THEN "retry.max must be >= 1"
    ELSE IF steps[i].retry.present
            /\ steps[i].retry.backoff \notin {"", "exponential", "linear"}
         THEN "retry.backoff must be 'exponential' or 'linear'"
    ELSE validateSteps(steps, i + 1)

\* validateWorkflow: the error message, "" for nil
validateWorkflow(w) ==
    IF w.name = "" THEN "workflow name is required"
    ELSE IF w.event = "" THEN "workflow trigger event is required"
    ELSE IF Len(w.steps) = 0 THEN "workflow must have at least one step"
    ELSE validateSteps(w.steps, 1)

\* LoadWorkflowFromYAML: (workflow, error)
LoadWorkflowFromYAML(y) ==
    IF ~y.parses
    THEN [ok |-> FALSE, err |-> "failed to parse workflow YAML"]
    ELSE IF validateWorkflow(y.wf) # ""
    THEN [ok |-> FALSE, err |-> validateWorkflow(y.wf)]
    ELSE [ok |-> TRUE, err |-> ""]

\* a mutant: the lookup finds nothing under event types other than "e1"
GetWorkflowForEvent_OnlyE1(eventType) ==
    IF eventType \in DOMAIN workflows /\ eventType = "e1"
    THEN [found |-> TRUE, wf |-> workflows[eventType]]
    ELSE [found |-> FALSE, wf |-> RegWorkflow("", "", <<>>)]

\* GetWorkflowForEvent: (workflow, exists)
GetWorkflowForEvent(eventType) ==
    IF eventType \in DOMAIN workflows
    THEN [found |-> TRUE, wf |-> workflows[eventType]]
    ELSE [found |-> FALSE, wf |-> RegWorkflow("", "", <<>>)]

NoLoad == [called |-> FALSE, input |-> [parses |-> FALSE,
                                         wf |-> RegWorkflow("", "", <<>>)],
           ok |-> FALSE, err |-> ""]

InitReg ==
    /\ workflows = [e \in {} |-> RegWorkflow("", "", <<>>)]
    /\ regLog = <<>>
    /\ loaded = NoLoad

\* RegisterWorkflow: e.workflows[workflow.On.Event] = workflow
RegRegisterWorkflow ==
    /\ UNCHANGED <<engineVars, orchVars, parVars, trigVars, execVars>>
    /\ Len(regLog) < MaxRegs
    /\ \E w \in RegCalls :
        /\ workflows' = MapPut(workflows, w.event, w)
        /\ regLog' = Append(regLog, w)
    /\ UNCHANGED loaded

\* a call of LoadWorkflowFromYAML
RegLoadWorkflow ==
    /\ UNCHANGED <<engineVars, orchVars, parVars, trigVars, execVars>>
    /\ \E y \in YamlInputs :
        LET r == LoadWorkflowFromYAML(y)
        IN loaded' = [called |-> TRUE, input |-> y, ok |-> r.ok, err |-> r.err]
    /\ UNCHANGED <<workflows, regLog>>

NextReg ==
    \/ RegRegisterWorkflow
    \/ RegLoadWorkflow

(***************************************************************************)
(* Triggers (package triggers): the HTTP handler, the file watcher and the *)
(* triggers that go through the helper executeWorkflow (Kafka, Redis,      *)
(* scheduler, database), with RegisterWorkflow running on another          *)
(* goroutine.  e.workflows is a plain Go map without a lock: a lookup and  *)
(* an assignment each take time, and the two can overlap.                  *)
(***************************************************************************)
TrigKinds == {"http", "file", "kafka"}

\* the kinds whose handler does the lookup itself; the others hand the event
\* to `go executeWorkflow(...)`
HandlerLooksUp(kind) == kind \in {"http", "file"}

\* the event type received; it has no workflow until one is registered
TrigTypes == {"e1"}

\* the workflow registered while the triggers run
TrigCalls == {RegWorkflow("A", "e1", OkSteps)}

\* what the action of a step does: it returns an output or an error
TrigOutcomes == {"ok", "err"}

\* the map a trigger builds from what it received
ContextData(kind, type) ==
    IF kind = "http" THEN [k \in {"data"} |-> "d"]
    ELSE IF kind = "file" THEN [k \in {"file_path"} |-> "f"]
    ELSE [k \in {"trigger_type", "event_type"} |->
             IF k = "trigger_type" THEN kind ELSE type]

\* the Metadata of the Event a trigger builds (the helper leaves it nil)
MetadataOf(kind) ==
    IF kind = "http" THEN [k \in {"remote_addr", "user_agent"} |-> "r"]
    ELSE IF kind = "file" THEN [k \in {"operation"} |-> "op"]
    ELSE EmptyMap

\* the *EventContext a trigger builds, with the Go maps it points to: the
\* HTTP and file triggers make a new map for Variables, the helper passes
\* contextData as Payload and as Variables
NoCtx == [built |-> FALSE, type |-> "", payload |-> "", metadata |-> EmptyMap,
          timestamp |-> "", variables |-> ""]

NewEventContext(kind, type) ==
    [built |-> TRUE, type |-> type, payload |-> "m1", metadata |-> MetadataOf(kind),
     timestamp |-> "now",
     variables |-> IF HandlerLooksUp(kind) THEN "m2" ELSE "m1"]

NewHeap(kind, type) ==
    IF HandlerLooksUp(kind)
    THEN [m \in {"m1", "m2"} |-> IF m = "m1" THEN ContextData(kind, type) ELSE EmptyMap]
    ELSE [m \in {"m1"} |-> ContextData(kind, type)]

NoHeap == [m \in {} |-> EmptyMap]

\* a mutant: the file watcher calls ExecuteWorkflow in its loop
Dispatch_Inline(kind) == IF kind = "file" THEN "call" ELSE "go"

\* how a trigger gets to ExecuteWorkflow: always through a go statement
Dispatch(kind) == "go"

\* a mutant: the handler goes on whatever the lookup said
Dispatches_Always(r) == TRUE

\* `if !exists { ...; return }`
Dispatches(r) == r.found

NoWorkflow == RegWorkflow("", "", <<>>)

NoWrite == [active |-> FALSE, w |-> NoWorkflow]

\* an event as it is received; dirty: its lookup overlapped an assignment to
\* the table; had: the table held its type when the lookup returned
NewEv(kind, type) ==
    [kind |-> kind, type |-> type, pc |-> "go", onLoop |-> FALSE, dirty |-> FALSE,
     had |-> FALSE, found |-> FALSE, wf |-> NoWorkflow, ctx |-> NoCtx, heap |-> NoHeap,
     idx |-> 0, inst |-> FALSE, ret |-> "", resp |-> ""]

\* the receive loop of a kind is inside its handler
Busy(kind) == \E i \in DOMAIN tEv : tEv[i].kind = kind /\ tEv[i].onLoop

\* what a lookup that overlapped an assignment can return: the entry, no
\* entry, any workflow that is or is being put into the table, or the key
\* with the value not yet stored (a nil *Workflow with exists true)
RacyReads(type) ==
    {GetWorkflowForEvent(type), [found |-> FALSE, wf |-> NoWorkflow],
     [found |-> TRUE, wf |-> NoWorkflow]}
    \cup {[found |-> TRUE, wf |-> workflows[e]] : e \in DOMAIN workflows}
    \cup (IF tWrite.active THEN {[found |-> TRUE, wf |-> tWrite.w]} ELSE {})

LookupResults(ev) ==
    IF ev.dirty THEN RacyReads(ev.type) ELSE {GetWorkflowForEvent(ev.type)}

InitTrig ==
    /\ tEv = <<>>
    /\ tWrite = NoWrite
    /\ tRegs = 0
    /\ tFatal = FALSE

(***************************************************************************)
(* A trigger receives an event.  The HTTP handler and the file watcher     *)
(* start the lookup; the other triggers build contextData and run          *)
(* `go executeWorkflow(...)`.  net/http serves each request on a goroutine *)
(* of its own; the file watcher has one loop.                              *)
(***************************************************************************)
TrigReceive ==
    /\ UNCHANGED <<engineVars, orchVars, parVars, regVars, execVars>>
    /\ ~tFatal
    /\ Len(tEv) < MaxEvents
    /\ \E kind \in TrigKinds, type \in TrigTypes :
        /\ kind = "file" => ~Busy("file")
        /\ tEv' = Append(tEv,
              IF HandlerLooksUp(kind)
              THEN [NewEv(kind, type) EXCEPT !.pc = "lookup", !.onLoop = TRUE,
                                             !.dirty = tWrite.active]
              ELSE [NewEv(kind, type) EXCEPT !.onLoop = (Dispatch(kind) = "call")])
    /\ UNCHANGED <<tWrite, tRegs, tFatal>>

\* helper executeWorkflow, on its goroutine: the lookup starts
TrigLookupBegin(i) ==
    /\ UNCHANGED <<engineVars, orchVars, parVars, regVars, execVars>>
    /\ ~tFatal
    /\ tEv[i].pc = "go"
    /\ tEv' = [tEv EXCEPT ![i].pc = "lookup", ![i].dirty = tWrite.active]
    /\ UNCHANGED <<tWrite, tRegs, tFatal>>

(***************************************************************************)
(* GetWorkflowForEvent returns.  Without a workflow the event is dropped   *)
(* (the HTTP handler answers 404); with one the EventContext is built and  *)
(* ExecuteWorkflow is handed to a goroutine or, in the helper, called.     *)
(* The HTTP handler goes on to write its response.  With exists true and a *)
(* nil workflow the read of workflow.Name panics once the EventContext is  *)
(* built: net/http recovers the panic of a handler and drops the           *)
(* connection; in the file watcher and in the helper's goroutine it ends   *)
(* the process.                                                            *)
(***************************************************************************)
\* the lookup gave exists true with a nil *Workflow
NilFound(r) == r.found /\ r.wf = NoWorkflow

TrigLookupEnd(i) ==
    /\ UNCHANGED <<engineVars, orchVars, parVars, regVars, execVars>>
    /\ ~tFatal
    /\ tEv[i].pc = "lookup"
    /\ \E r \in LookupResults(tEv[i]) :
        LET ev == tEv[i] IN
        /\ tEv' = [tEv EXCEPT ![i] =
              IF Dispatches(r) /\ NilFound(r)
              THEN [ev EXCEPT !.pc = "panicked", !.found = r.found, !.wf = r.wf,
                              !.had = ev.type \in DOMAIN workflows,
                              !.onLoop = FALSE,
                              !.ctx = NewEventContext(ev.kind, ev.type),
                              !.heap = NewHeap(ev.kind, ev.type)]
              ELSE IF Dispatches(r)
              THEN [ev EXCEPT !.pc = "spawned", !.found = r.found, !.wf = r.wf,
                              !.had = ev.type \in DOMAIN workflows,
                              !.onLoop = (Dispatch(ev.kind) = "call"),
                              !.ctx = NewEventContext(ev.kind, ev.type),
                              !.heap = NewHeap(ev.kind, ev.type)]
              ELSE [ev EXCEPT !.pc = "dropped", !.found = r.found,
                              !.had = ev.type \in DOMAIN workflows,
                              !.onLoop = FALSE,
                              !.resp = IF ev.kind = "http" THEN "404" ELSE ""]]
        /\ tFatal' = (Dispatches(r) /\ NilFound(r) /\ ev.kind # "http")
    /\ UNCHANGED <<tWrite, tRegs>>

\* HTTPTrigger.triggerWorkflow after its go statement: the response
\* "accepted" is built and written, and the handler returns
TrigRespond(i) ==
    /\ UNCHANGED <<engineVars, orchVars, parVars, regVars, execVars>>
    /\ ~tFatal
    /\ tEv[i].kind = "http"
    /\ tEv[i].pc \in {"spawned", "exec", "done"}
    /\ tEv[i].resp = ""
    /\ tEv' = [tEv EXCEPT ![i].resp = "accepted"]
    /\ UNCHANGED <<tWrite, tRegs, tFatal>>

\* ExecuteWorkflow is entered: the instance is created and saved
TrigExecBegin(i) ==
    /\ UNCHANGED <<engineVars, orchVars, parVars, regVars, execVars>>
    /\ ~tFatal
    /\ tEv[i].pc = "spawned"
    /\ tEv' = [tEv EXCEPT ![i].pc = "exec", ![i].inst = TRUE, ![i].idx = 1]
    /\ UNCHANGED <<tWrite, tRegs, tFatal>>

(***************************************************************************)
(* One pass of ExecuteWorkflow's loop for a step without `if` and without  *)
(* retry: executeStep writes a non-nil output to                           *)
(* eventCtx.Variables[step.Name]; an error ends the run, and so does the   *)
(* last step.  The caller only logs the error.                             *)
(***************************************************************************)
TrigExecStep(i) ==
    /\ UNCHANGED <<engineVars, orchVars, parVars, regVars, execVars>>
    /\ ~tFatal
    /\ tEv[i].pc = "exec"
    /\ tEv[i].idx <= Len(tEv[i].wf.steps)
    /\ \E o \in TrigOutcomes :
        LET ev == tEv[i]
            st == ev.wf.steps[ev.idx]
            r == executeStep([name |-> st.name, action |-> st.action, ifT |-> "",
                              cfg |-> "hello", retry |-> st.retry], o)
            h == IF r.hasOutput
                 THEN [ev.heap EXCEPT ![ev.ctx.variables] = MapPut(@, st.name, "output")]
                 ELSE ev.heap
        IN tEv' = [tEv EXCEPT ![i] =
              IF r.err # NoErr
              THEN [ev EXCEPT !.heap = h, !.pc = "done", !.ret = "err", !.onLoop = FALSE]
              ELSE IF ev.idx = Len(ev.wf.steps)
              THEN [ev EXCEPT !.heap = h, !.pc = "done", !.ret = "ok", !.onLoop = FALSE]
              ELSE [ev EXCEPT !.heap = h, !.idx = ev.idx + 1]]
    /\ UNCHANGED <<tWrite, tRegs, tFatal>>

\* RegisterWorkflow on another goroutine: the map assignment starts
TrigRegisterBegin ==
    /\ UNCHANGED <<engineVars, orchVars, parVars, regVars, execVars>>
    /\ ~tFatal
    /\ ~tWrite.active
    /\ tRegs < MaxTrigRegs
    /\ \E w \in TrigCalls : tWrite' = [active |-> TRUE, w |-> w]
    /\ tEv' = [i \in DOMAIN tEv |->
                  IF tEv[i].pc = "lookup" THEN [tEv[i] EXCEPT !.dirty = TRUE]
                  ELSE tEv[i]]
    /\ UNCHANGED <<tRegs, tFatal>>

\* the map assignment is done and RegisterWorkflow returns
TrigRegisterEnd ==
    /\ UNCHANGED <<engineVars, orchVars, parVars, regLog, loaded, execVars>>
    /\ ~tFatal
    /\ tWrite.active
    /\ workflows' = MapPut(workflows, tWrite.w.event, tWrite.w)
    /\ tWrite' = NoWrite
    /\ tRegs' = tRegs + 1
    /\ UNCHANGED <<tEv, tFatal>>

\* the Go runtime finds the map read and written at once and ends the process
TrigFatal ==
    /\ UNCHANGED <<engineVars, orchVars, parVars, regVars, execVars>>
    /\ ~tFatal
    /\ \E i \in DOMAIN tEv : tEv[i].pc = "lookup" /\ tEv[i].dirty
    /\ tFatal' = TRUE
    /\ UNCHANGED <<tEv, tWrite, tRegs>>

NextTrig ==
    \/ TrigReceive
    \/ \E i \in DOMAIN tEv : TrigLookupBegin(i)
    \/ \E i \in DOMAIN tEv : TrigLookupEnd(i)
    \/ \E i \in DOMAIN tEv : TrigRespond(i)
    \/ \E i \in DOMAIN tEv : TrigExecBegin(i)
    \/ \E i \in DOMAIN tEv : TrigExecStep(i)
    \/ TrigRegisterBegin
    \/ TrigRegisterEnd
    \/ TrigFatal

(***************************************************************************)
(* Orchestrator: several calls of ExecuteWorkflow on one orchestrator,     *)
(* their executeSteps goroutines, and the control operations.              *)
(***************************************************************************)
\* fmt.Sprintf("exec_%d", time.Now().UnixNano())
ExecutionID(now) == "exec_" \o ToString(now)

\* the ids a caller may name
ExecutionIDs == {ExecutionID(t) : t \in 1..MaxClock}

\* the ways executeSteps ends: after the loop, on a step error or a recovered
\* panic, on a cancelled ctx
StepsExits == {"completed", "failed", "cancelled"}

\* a mutant: the return after markExecutionFailed is missing
ExitMarks_FallThrough(exit) ==
    IF exit = "failed" THEN <<"failed", "completed">> ELSE <<exit>>

\* the markExecution... calls executeSteps makes on an exit: one, then it
\* returns
ExitMarks(exit) == <<exit>>

\* number of calls of the kind among the marks
CountOf(marks, kind) == Cardinality({i \in DOMAIN marks : marks[i] = kind})

\* GetExecution: the context stored under the id, 0 when there is none
GetExecution(id) == IF id \in DOMAIN xTable THEN xTable[id] ELSE 0

\* the goroutines that make a control call (Cancel, Pause or
\* ResumeExecution), one call each
Controllers == {"c1", "c2"}

\* caller c has not made its control call yet / its call has returned
NoCtl == [op |-> "", e |-> 0]
CtlReturned == [op |-> "returned", e |-> 0]

InitExecs ==
    /\ xNow = 1
    /\ xCtxs = <<>>
    /\ xTable = EmptyMap
    /\ xCtl = [c \in Controllers |-> NoCtl]

\* time passes between two readings of the clock
XTick ==
    /\ UNCHANGED <<engineVars, orchVars, parVars, regVars, trigVars>>
    /\ xNow < MaxClock
    /\ xNow' = xNow + 1
    /\ UNCHANGED <<xCtxs, xTable, xCtl>>

\* ExecuteWorkflow: the id is made from the clock and execCtx is created
XExecuteWorkflow ==
    /\ UNCHANGED <<engineVars, orchVars, parVars, regVars, trigVars>>
    /\ Len(xCtxs) < MaxExecs
    /\ xCtxs' = Append(xCtxs, [id |-> ExecutionID(xNow), status |-> "running",
                               pc |-> "created", exit |-> "", marks |-> <<>>])
    /\ UNCHANGED <<xNow, xTable, xCtl>>

\* ExecuteWorkflow: o.executions[executionID] = execCtx
XRegister(e) ==
    /\ UNCHANGED <<engineVars, orchVars, parVars, regVars, trigVars>>
    /\ xCtxs[e].pc = "created"
    /\ xTable' = MapPut(xTable, xCtxs[e].id, e)
    /\ xCtxs' = [xCtxs EXCEPT ![e].pc = "registered"]
    /\ UNCHANGED <<xNow, xCtl>>

\* ExecuteWorkflow: o.metrics.TotalExecutions++
XCount(e) ==
    /\ UNCHANGED <<engineVars, orchButMetrics, parVars, regVars, trigVars>>
    /\ xCtxs[e].pc = "registered"
    /\ metrics' = [metrics EXCEPT !.total = @ + 1]
    /\ xCtxs' = [xCtxs EXCEPT ![e].pc = "counted"]
    /\ UNCHANGED <<xNow, xTable, xCtl>>

\* ExecuteWorkflow: go o.executeSteps(ctx, execCtx, steps), and the return
XGo(e) ==
    /\ UNCHANGED <<engineVars, orchVars, parVars, regVars, trigVars>>
    /\ xCtxs[e].pc = "counted"
    /\ xCtxs' = [xCtxs EXCEPT ![e].pc = "steps"]
    /\ UNCHANGED <<xNow, xTable, xCtl>>

\* where executeSteps is after n of the markExecution... calls of its exit
AfterMark(exit, n) == IF n < Len(ExitMarks(exit)) THEN "mark" ELSE "done"

\* executeSteps reaches one of its ends and calls markExecution...: the
\* status is written under execCtx.mu; completed and failed go on to the
\* counter, markExecutionCancelled returns
XStepsEnd(e) ==
    /\ UNCHANGED <<engineVars, orchVars, parVars, regVars, trigVars>>
    /\ xCtxs[e].pc \in {"steps", "mark"}
    /\ \E exit \in StepsExits :
        /\ xCtxs[e].pc = "mark" => exit = xCtxs[e].exit
        /\ LET n == Len(xCtxs[e].marks) + 1
               kind == ExitMarks(exit)[n]
           IN xCtxs' = [xCtxs EXCEPT
                            ![e].exit = exit,
                            ![e].status = kind,
                            ![e].marks = Append(@, kind),
                            ![e].pc = IF kind = "cancelled"
                                      THEN AfterMark(exit, n) ELSE "count"]
    /\ UNCHANGED <<xNow, xTable, xCtl>>

\* markExecutionCompleted / markExecutionFailed: the counter, under
\* metrics.mu
XCountEnd(e) ==
    /\ UNCHANGED <<engineVars, orchButMetrics, parVars, regVars, trigVars>>
    /\ xCtxs[e].pc = "count"
    /\ LET n == Len(xCtxs[e].marks)
           kind == xCtxs[e].marks[n]
       IN /\ metrics' = [metrics EXCEPT
                            !.completed = @ + IF kind = "completed" THEN 1 ELSE 0,
                            !.failed = @ + IF kind = "failed" THEN 1 ELSE 0]
          /\ xCtxs' = [xCtxs EXCEPT ![e].pc = AfterMark(xCtxs[e].exit, n)]
    /\ UNCHANGED <<xNow, xTable, xCtl>>

\* CancelExecution(id) by caller c: the lookup under o.mu.RLock; without an entry
\* the call returns an error
XCancelExecution(c, id) ==
    /\ UNCHANGED <<engineVars, orchVars, parVars, regVars, trigVars>>
    /\ xCtl[c] = NoCtl
    /\ GetExecution(id) # 0
    /\ xCtl' = [xCtl EXCEPT ![c] = [op |-> "cancel", e |-> GetExecution(id)]]
    /\ UNCHANGED <<xNow, xCtxs, xTable>>

\* CancelExecution: markExecutionCancelled on the context that was found
XMarkCancelled(c) ==
    /\ UNCHANGED <<engineVars, orchVars, parVars, regVars, trigVars>>
    /\ xCtl[c].op = "cancel"
    /\ xCtxs' = [xCtxs EXCEPT ![xCtl[c].e].status = "cancelled"]
    /\ xCtl' = [xCtl EXCEPT ![c] = CtlReturned]
    /\ UNCHANGED <<xNow, xTable>>

\* PauseExecution(id) by caller c: the lookup under o.mu.RLock; without an entry
\* the call returns an error
XPauseExecution(c, id) ==
    /\ UNCHANGED <<engineVars, orchVars, parVars, regVars, trigVars>>
    /\ xCtl[c] = NoCtl
    /\ GetExecution(id) # 0
    /\ xCtl' = [xCtl EXCEPT ![c] = [op |-> "pause", e |-> GetExecution(id)]]
    /\ UNCHANGED <<xNow, xCtxs, xTable>>

\* PauseExecution: Status = StatusPaused on the context that was found
XPauseWrite(c) ==
    /\ UNCHANGED <<engineVars, orchVars, parVars, regVars, trigVars>>
    /\ xCtl[c].op = "pause"
    /\ xCtxs' = [xCtxs EXCEPT ![xCtl[c].e].status = "paused"]
    /\ xCtl' = [xCtl EXCEPT ![c] = CtlReturned]
    /\ UNCHANGED <<xNow, xTable>>

\* ResumeExecution(id) by caller c: the lookup under o.mu.RLock; without an entry
\* the call returns an error
XResumeExecution(c, id) ==
    /\ UNCHANGED <<engineVars, orchVars, parVars, regVars, trigVars>>
    /\ xCtl[c] = NoCtl
    /\ GetExecution(id) # 0
    /\ xCtl' = [xCtl EXCEPT ![c] = [op |-> "resume", e |-> GetExecution(id)]]
    /\ UNCHANGED <<xNow, xCtxs, xTable>>

\* ResumeExecution: a paused context that was found becomes running
XResumeWrite(c) ==
    /\ UNCHANGED <<engineVars, orchVars, parVars, regVars, trigVars>>
    /\ xCtl[c].op = "resume"
    /\ xCtxs' = [xCtxs EXCEPT ![xCtl[c].e].status =
                                    IF @ = "paused" THEN "running" ELSE @]
    /\ xCtl' = [xCtl EXCEPT ![c] = CtlReturned]
    /\ UNCHANGED <<xNow, xTable>>

NextExecs ==
    \/ XTick
    \/ XExecuteWorkflow
    \/ \E e \in DOMAIN xCtxs : XRegister(e)
    \/ \E e \in DOMAIN xCtxs : XCount(e)
    \/ \E e \in DOMAIN xCtxs : XGo(e)
    \/ \E e \in DOMAIN xCtxs : XStepsEnd(e)
    \/ \E e \in DOMAIN xCtxs : XCountEnd(e)
    \/ \E c \in Controllers, id \in ExecutionIDs : XCancelExecution(c, id)
    \/ \E c \in Controllers : XMarkCancelled(c)
    \/ \E c \in Controllers, id \in ExecutionIDs : XPauseExecution(c, id)
    \/ \E c \in Controllers : XPauseWrite(c)
    \/ \E c \in Controllers, id \in ExecutionIDs : XResumeExecution(c, id)
    \/ \E c \in Controllers : XResumeWrite(c)

\* the same while the clock stands at one reading: every call makes the
\* same id
NextCounts ==
    \/ XExecuteWorkflow
    \/ \E e \in DOMAIN xCtxs : XRegister(e)
    \/ \E e \in DOMAIN xCtxs : XCount(e)
    \/ \E e \in DOMAIN xCtxs : XGo(e)
    \/ \E e \in DOMAIN xCtxs : XStepsEnd(e)
    \/ \E e \in DOMAIN xCtxs : XCountEnd(e)
    \/ \E c \in Controllers, id \in ExecutionIDs : XCancelExecution(c, id)
    \/ \E c \in Controllers : XMarkCancelled(c)
    \/ \E c \in Controllers, id \in ExecutionIDs : XPauseExecution(c, id)
    \/ \E c \in Controllers : XPauseWrite(c)
    \/ \E c \in Controllers, id \in ExecutionIDs : XResumeExecution(c, id)
    \/ \E c \in Controllers : XResumeWrite(c)

Init ==
    InitEngine /\ InitOrch /\ InitPar /\ InitReg /\ InitTrig /\ InitExecs

SpecEngine == Init /\ [][NextEngine]_vars

SpecCaller == Init /\ [][NextCaller]_vars

SpecOrch == Init /\ [][NextOrch]_vars

SpecPar == Init /\ [][NextPar]_vars

SpecReg == Init /\ [][NextReg]_vars

SpecTrig == Init /\ [][NextTrig]_vars

\* the steps the goroutine of branch b takes by itself; the return of a
\* sub-step is the step executor's, which may never come
BranchNext(b) ==
    \/ BAcquire(b)
    \/ BCtxError(b)
    \/ BStartStep(b)
    \/ BFinish(b)
    \/ BRelease(b)
    \/ BDone(b)

\* the goroutines of a parallel step are scheduled: a branch that can go on
\* by itself does
FairPar ==
    /\ WF_vars(PSpawn)
    /\ \A b \in 1..MaxBranches : WF_vars(b \in DOMAIN bPc /\ BranchNext(b))

SpecCapped == Init /\ [][NextCapped]_vars /\ FairPar

SpecMerge == Init /\ [][NextMerge]_vars

SpecJoinAll == Init /\ [][NextJoinAll]_vars

SpecExecs == Init /\ [][NextExecs]_vars

SpecCounts == Init /\ [][NextCounts]_vars

\* the goroutine of executeSteps is scheduled: a pass of the loop that can
\* run does run
SpecLoop ==
    Init /\ [][NextLoop]_vars /\ WF_vars(OLoopIterate) /\ WF_vars(OLoopExit)

(***************************************************************************)
(* Claims about Engine.ExecuteWorkflow.                                    *)
(***************************************************************************)
\* the elements of a sequence
Range(s) == {s[i] : i \in DOMAIN s}

IsOk(kind) == kind \in {"ok", "oknil"}

\* the attempts of step i so far all failed
AllFailed(i) == \A j \in 1..Len(calls[i]) : ~IsOk(calls[i][j])

\* step i failed on all but its last attempt so far, which succeeded
FailedThenOk(i) ==
    /\ Len(calls[i]) >= 1
    /\ IsOk(calls[i][Len(calls[i])])
    /\ \A j \in 1..(Len(calls[i]) - 1) : ~IsOk(calls[i][j])

\* step i of the definition is one the for loop runs (no or truthy condition)
Runs(i) == wf[i].ifT = "" \/
           (~evaluateCondition(wf[i].ifT).err /\ evaluateCondition(wf[i].ifT).ok)

\* C1: when ExecuteWorkflow has returned, the instance is completed iff every
\* recorded step execution is completed or skipped, and failed otherwise.
C1_CompletedIffAllStepsOk ==
    eRet.returned =>
        /\ instance.status \in {"completed", "failed"}
        /\ (instance.status = "completed") <=>
               (\A i \in 1..Len(instance.steps) :
                    instance.steps[i].status \in {"completed", "skipped"})

\* C2: a step with retry.max = K whose K attempts all failed is recorded
\* failed, the instance is failed with an error holding the step's name,
\* ExecuteWorkflow has returned an error, and no later step was executed or
\* recorded.
C2_RetryExhaustion ==
    \A i \in 1..Len(wf) :
        (wf[i].retry.present /\ Len(calls[i]) = wf[i].retry.max /\ AllFailed(i)) =>
            /\ Len(instance.steps) = i
            /\ instance.steps[i].name = StepName(i)
            /\ instance.steps[i].status = "failed"
            /\ instance.status = "failed"
            /\ StepName(i) \in Range(instance.error)
            /\ eRet.returned /\ eRet.err # NoErr
            /\ \A j \in (i + 1)..Len(wf) : calls[j] = <<>>

C2_Witness ==
    /\ ePc = "done"
    /\ Len(wf) = 2
    /\ wf[1].retry.present /\ wf[1].retry.max = MaxK
    /\ calls[1] = [j \in 1..MaxK |-> "err"]

\* C3: a step with retry.max = K that failed on its first K-1 attempts and
\* succeeded on attempt K is recorded completed with retries = K-1, and the
\* run has gone on past it.
C3_RetryCount ==
    \A i \in 1..Len(wf) :
        (wf[i].retry.present /\ Len(calls[i]) = wf[i].retry.max /\ FailedThenOk(i)) =>
            /\ Len(instance.steps) >= i
            /\ instance.steps[i].status = "completed"
            /\ instance.steps[i].retries = wf[i].retry.max - 1
            /\ eIdx > i
            /\ (instance.status = "failed" => Len(instance.steps) > i)

C3_Witness ==
    /\ Len(wf) = 2
    /\ wf[1].retry.present /\ wf[1].retry.max = MaxK
    /\ Len(calls[1]) = MaxK /\ FailedThenOk(1)
    /\ Len(calls[2]) > 0

\* C4: a step is attempted at most retry.max times (exactly once, when it runs
\* and has no retry policy), and never again after an attempt that succeeded.
C4_AttemptsBounded ==
    \A i \in 1..Len(wf) :
        /\ Len(calls[i]) <= (IF wf[i].retry.present THEN wf[i].retry.max ELSE 1)
        /\ \A j \in 1..(Len(calls[i]) - 1) : ~IsOk(calls[i][j])
        /\ (~wf[i].retry.present /\ Runs(i) /\ Len(instance.steps) >= i)
                => Len(calls[i]) = 1

C4_Witness ==
    /\ Len(wf) = 2
    /\ wf[1].retry.present /\ wf[1].retry.max = MaxK /\ Len(calls[1]) = MaxK
    /\ ~wf[2].retry.present /\ Len(calls[2]) = 1
    /\ ePc = "done"

\* the `if` of step i is a template that resolves to a falsy string
FalsyIf(i) ==
    /\ wf[i].ifT # ""
    /\ ~resolveTemplate(wf[i].ifT).err
    /\ resolveTemplate(wf[i].ifT).val \in {"", "false", "0", "no"}

\* C10: a step whose `if` resolves to "", "false", "0" or "no" is recorded
\* skipped, executeStep is never called for it, and the run goes on: a run
\* that returns before the last step does so at a failed step, not at it.
C10_FalsySkips ==
    \A i \in 1..Len(wf) :
        FalsyIf(i) =>
            /\ calls[i] = <<>>
            /\ (Len(instance.steps) >= i =>
                    /\ instance.steps[i].status = "skipped"
                    /\ instance.steps[i].name = StepName(i)
                    /\ eIdx > i)
            /\ (eRet.returned /\ Len(instance.steps) >= i =>
                    \/ Len(instance.steps) = Len(wf)
                    \/ /\ Len(instance.steps) > i
                       /\ instance.steps[Len(instance.steps)].status = "failed")

C10_Witness ==
    /\ Len(wf) = 2
    /\ wf[1].ifT = "no"
    /\ Len(instance.steps) = 2
    /\ instance.steps[1].status = "skipped"
    /\ instance.steps[2].status = "completed"
    /\ eRet.returned


\* the last executeStep call of step i returned kind k
LastCall(i, k) == calls[i] # <<>> /\ calls[i][Len(calls[i])] = k

\* the run has returned and every step of the definition ran and succeeded
AllSucceeded ==
    /\ eRet.returned
    /\ \A i \in 1..Len(wf) : LastCall(i, "ok") \/ LastCall(i, "oknil")

\* C11: the step history is a prefix of the definition: record i carries the
\* name of step i, every step the loop has passed is recorded (skipped and
\* failed ones too) and none twice; when all N steps succeed there are N
\* records, all completed, and record i ends no later than record i+1 starts.
C11_HistoryIsPrefix ==
    ePc # "idle" =>
        /\ Len(instance.steps) <= Len(wf)
        /\ Len(instance.steps) >= eIdx - 1
        /\ \A i \in 1..Len(instance.steps) : instance.steps[i].name = StepName(i)
        /\ AllSucceeded =>
              /\ Len(instance.steps) = Len(wf)
              /\ \A i \in 1..Len(wf) :
                    /\ instance.steps[i].status = "completed"
                    /\ instance.steps[i].endSet
                    /\ instance.steps[i].start <= instance.steps[i].endTime
              /\ \A i \in 1..(Len(wf) - 1) :
                    instance.steps[i].endTime <= instance.steps[i + 1].start

\* a run of MaxSteps steps that all succeeded
C11_Witness ==
    /\ Len(wf) = MaxSteps
    /\ AllSucceeded
    /\ Len(instance.steps) = MaxSteps

\* C12: variables[s] is present iff step s is recorded completed and its
\* action returned a non-nil output; the run puts nothing else in variables
\* (the caller's own key apart).
C12_VariablesIffOutput ==
    ePc # "idle" =>
        /\ DOMAIN variables \subseteq
              {StepName(i) : i \in 1..Len(wf)} \cup {CallerKey}
        /\ \A i \in 1..Len(wf) :
              StepName(i) \in DOMAIN variables <=>
                  /\ i <= Len(instance.steps)
                  /\ instance.steps[i].status = "completed"
                  /\ LastCall(i, "ok")

\* step 1 failed once and then returned an output, step 2 returned nil
C12_Witness ==
    /\ Len(wf) = 2
    /\ calls[1] = <<"err", "ok">>
    /\ calls[2] = <<"oknil">>
    /\ Len(instance.steps) = 2
    /\ DOMAIN variables = {StepName(1), CallerKey}

\* C13: every step execution recorded in the history has been handed to
\* SaveWorkflowInstance by the time the loop goes on to the next step.
C13_SavedAfterEveryStep ==
    ePc # "idle" => handed.rec.steps = instance.steps

Terminal == {"completed", "failed", "cancelled"}

\* C14: every record handed to the store, the stored record and the record at
\* return have an EndTime iff their status is terminal; the record at return
\* is terminal and the record of a run under way is running.
C14_EndTimeIffTerminal ==
    /\ handed.rec.exists =>
          (handed.rec.endSet <=> handed.rec.status \in Terminal)
    /\ GetWorkflowInstance(instance.id).found =>
          LET got == GetWorkflowInstance(instance.id).inst
          IN  got.endSet <=> got.status \in Terminal
    /\ ePc # "idle" => (instance.endSet <=> instance.status \in Terminal)
    /\ eRet.returned => instance.status \in Terminal
    /\ (ePc # "idle" /\ ~eRet.returned) => instance.status = "running"

\* a failed run: the record handed over last is failed and has its EndTime,
\* after a record of the running instance had been handed over
C14_Witness ==
    /\ eRet.returned
    /\ handed.rec.status = "failed"
    /\ handed.rec.endSet
    /\ Len(handed.rec.steps) = 2
    /\ handed.rec.steps[1].status = "completed"

\* the statuses of the step executions of an instance, in order
StepStatuses(inst) == [i \in DOMAIN inst.steps |-> inst.steps[i].status]

\* after a SaveWorkflowInstance call that returned nil, GetWorkflowInstance
\* of the id returns the record saved, whatever was saved before; an id never
\* saved is not found
SavedIsRead ==
    /\ ~GetWorkflowInstance("uuid-0").found
    /\ (handed.rec.exists /\ ~handed.err) =>
          LET got == GetWorkflowInstance(handed.rec.id)
          IN  /\ got.found
              /\ got.inst.id = handed.rec.id
              /\ got.inst.status = handed.rec.status
              /\ Len(got.inst.steps) = Len(handed.rec.steps)
              /\ StepStatuses(got.inst) = StepStatuses(handed.rec)
              /\ got.inst.endSet = handed.rec.endSet
              /\ got.inst.error = handed.rec.error

\* GetWorkflowInstance of the id the run returned gives status completed and
\* the step statuses of the run
RunIsRead ==
    LET got == GetWorkflowInstance(eRet.id)
    IN  /\ got.found
        /\ got.inst.status = "completed"
        /\ StepStatuses(got.inst) = StepStatuses(instance)

SubOf(i) ==
    CHOOSE k \in 1..Len(oSub) : oSub[k].id = ExecId \o "_sub_" \o OStepId(i)

SyncSubDone(i) ==
    /\ i \in 1..Len(oSteps)
    /\ oSteps[i].type = "subflow"
    /\ oSteps[i].sub.present
    /\ ~oSteps[i].sub.async
    /\ OStepId(i) \in DOMAIN oResults
    /\ \E k \in 1..Len(oSub) : oSub[k].id = ExecId \o "_sub_" \o OStepId(i)

\* C5: once CancelExecution has returned nil for a running execution, the
\* execution goroutine starts no further step and does not replace the
\* cancelled status by completed or failed.
C5_CancelStopsDispatch ==
    oCancel.acked =>
        /\ OStarted = oCancel.started
        /\ oStatus \notin {"completed", "failed"}

\* C6: once CancelExecution has returned nil while the execution is inside a
\* delay step, the execution's context is cancelled and the delay does not
\* end by its timer.
C6_CancelEndsDelay ==
    (oCancel.acked /\ oCancel.pc = "delay") =>
        /\ oCtxDone
        /\ oDelayEnd[oCancel.started] # "timer"

\* C9: after a synchronous sub-workflow step has returned, every parent
\* variable of the output mapping whose sub-workflow variable exists holds
\* that variable's value.
C9_OutputMapping ==
    \A i \in 1..Len(oSteps) :
        SyncSubDone(i) =>
            \A p \in DOMAIN oSteps[i].sub.output :
                LET sv == oSteps[i].sub.output[p]
                IN  sv \in DOMAIN oSub[SubOf(i)].variables =>
                        /\ p \in DOMAIN oVars
                        /\ oVars[p] = oSub[SubOf(i)].variables[sv]

\* C19: while the execution's status is paused, executeSteps starts no step.
C19_PausedNoDispatch ==
    [][oStatus = "paused" => OStarted' = OStarted]_vars

(***************************************************************************)
(* Claims about executeParallelStep.                                       *)
(***************************************************************************)
BranchIds == {BranchId(b) : b \in Branches}

\* C7: with FailFast, once a branch has recorded a sub-step error no other
\* branch starts a further sub-step, and an error the call returns for a
\* branch is the error of the branch that failed first.
C7_FailFastCancels ==
    (par.present /\ par.failFast /\ pFirstErr # "") =>
        /\ ~pLate
        /\ (pRet.returned /\ pRet.branch # "") => pRet.branch = pFirstErr

\* C8: with join type all the call returns only when every branch goroutine
\* has finished, and with no branch error the returned results have exactly
\* one entry per branch, keyed by the branch's id.
C8_JoinAllWaits ==
    (par.present /\ par.joinType = "all" /\ pRet.returned) =>
        /\ \A b \in Branches : bPc[b] = "done"
        /\ DOMAIN pErrors = {} =>
              /\ pRet.err = NoErr
              /\ DOMAIN pResults = BranchIds

\* two branches with sub-steps, join type all, returned without an error
C8_Witness ==
    /\ par.present
    /\ par.joinType = "all"
    /\ par.n = MaxBranches
    /\ \A b \in Branches : par.subs[b] > 0
    /\ pRet.returned
    /\ DOMAIN pErrors = {}
    /\ Cardinality(DOMAIN pResults) = MaxBranches

(***************************************************************************)
(* Claims about the workflow table and the loader.                         *)
(***************************************************************************)
\* the positions of regLog at which a workflow was registered under event e
RegsUnder(e) == {i \in 1..Len(regLog) : regLog[i].event = e}

\* the largest element of a non-empty set of numbers
MaxOf(S) == CHOOSE x \in S : \A y \in S : y <= x

\* C16: GetWorkflowForEvent(E) returns the workflow registered last under E,
\* and finds nothing for an event type never registered; registering under
\* one event type therefore leaves the others as they were.
C16_LastRegistrationWins ==
    \A e \in EventTypes :
        IF RegsUnder(e) = {}
        THEN ~GetWorkflowForEvent(e).found
        ELSE /\ GetWorkflowForEvent(e).found
             /\ GetWorkflowForEvent(e).wf = regLog[MaxOf(RegsUnder(e))]

\* A then B registered under e1 with a registration under e2 in between
C16_Witness ==
    /\ Len(regLog) = 3
    /\ regLog[1] = RegWorkflow("A", "e1", OkSteps)
    /\ regLog[2] = RegWorkflow("A", "e2", OkSteps)
    /\ regLog[3] = RegWorkflow("B", "e1", OkSteps)
    /\ GetWorkflowForEvent("e1").wf.name = "B"
    /\ GetWorkflowForEvent("e2").wf.name = "A"
    /\ ~GetWorkflowForEvent("e3").found

\* C17: RegisterWorkflow stores only workflows that pass validateWorkflow: the
\* table never holds a workflow that violates a validation rule.
C17_RegisterValidates ==
    \A e \in DOMAIN workflows : validateWorkflow(workflows[e]) = ""

\* the definition violates a validation rule of the specification, whose
\* recognised backoff values are fixed, linear and exponential
SpecInvalid(w) ==
    \/ w.name = ""
    \/ w.event = ""
    \/ Len(w.steps) = 0
    \/ \E i \in 1..Len(w.steps) :
          \/ w.steps[i].name = ""
          \/ w.steps[i].action = ""
          \/ w.steps[i].retry.present /\ w.steps[i].retry.max < 1
          \/ /\ w.steps[i].retry.present
             /\ w.steps[i].retry.backoff \notin {"", "fixed", "linear", "exponential"}

\* C18: LoadWorkflowFromYAML of a definition returns an error exactly when
\* the definition has no name, no event, no steps, a step without name or
\* action, a retry with max < 1 or a backoff other than fixed, linear or
\* exponential.
C18_ValidationRules ==
    (loaded.called /\ loaded.input.parses) =>
        (~loaded.ok <=> SpecInvalid(loaded.input.wf))

\* the branches that hold a slot of the semaphore
PastSemaphore == {b \in DOMAIN bPc : bPc[b] \in {"run", "exec", "exit"}}

\* never more than MaxParallel branches are past the semaphore, and the
\* slots taken are theirs
WithinCap ==
    /\ Cardinality(PastSemaphore) <= par.maxParallel \/ DOMAIN bPc = {}
    /\ Cardinality(PastSemaphore) = pSem

\* no branch goroutine that was started is waiting for a slot
NoneWaiting == \A b \in DOMAIN bPc : bPc[b] # "start"

\* no sub-step stays in the step executor for ever
SubStepsReturn ==
    \A b \in 1..MaxBranches : []<>~(b \in DOMAIN bPc /\ bPc[b] = "exec")

C21_EngineCancelStops ==
    [][(eCtxDone /\ ePc \in {"backoff", "loop"}) => ePc' # "attempt"]_vars

(***************************************************************************)
(* Claims about the triggers and the workflow table.                       *)
(***************************************************************************)
\* C22: no assignment to e.workflows by RegisterWorkflow overlaps a lookup by
\* GetWorkflowForEvent on another goroutine.
C22_TableAccessExclusive ==
    tWrite.active => \A i \in DOMAIN tEv : tEv[i].pc # "lookup"

\* C23: the event of an EventContext stays as the trigger built it: type,
\* metadata and timestamp, and the payload map with the entries it had.
C23_EventImmutable ==
    \A i \in DOMAIN tEv :
        tEv[i].ctx.built =>
            /\ tEv[i].ctx = NewEventContext(tEv[i].kind, tEv[i].type)
            /\ tEv[i].heap[tEv[i].ctx.payload] = ContextData(tEv[i].kind, tEv[i].type)

\* the lookup of the event has returned
LookedUp(ev) == ev.pc \notin {"go", "lookup"}

\* C24: an event whose type has no workflow in the table is dropped:
\* ExecuteWorkflow is not called for it, no context and no instance is made,
\* and the trigger's loop is free for the next event.
C24_NoWorkflowDrops ==
    \A i \in DOMAIN tEv :
        /\ (LookedUp(tEv[i]) /\ ~tEv[i].dirty /\ ~tEv[i].had) => tEv[i].pc = "dropped"
        /\ (LookedUp(tEv[i]) /\ ~tEv[i].found) => tEv[i].pc = "dropped"
        /\ tEv[i].pc = "dropped" =>
              /\ ~tEv[i].inst
              /\ ~tEv[i].ctx.built
              /\ tEv[i].ret = ""
              /\ ~tEv[i].onLoop

\* the file watcher dropped an event whose type was not registered and then
\* ran the workflow of a later event to its end
C24_Witness ==
    /\ Len(tEv) = 2
    /\ tEv[1].kind = "file" /\ tEv[1].pc = "dropped" /\ ~tEv[1].dirty
    /\ tEv[2].kind = "file" /\ tEv[2].pc = "done" /\ tEv[2].inst

\* C25: ExecuteWorkflow never runs on the goroutine of a trigger's receive
\* loop or handler, and what the sender of an event is told does not depend
\* on the execution: an execution error does not reach it.
C25_FreshGoroutine ==
    \A i \in DOMAIN tEv :
        /\ tEv[i].pc \in {"spawned", "exec"} => ~tEv[i].onLoop
        /\ tEv[i].resp \in {"", "accepted", "404"}
        /\ (tEv[i].kind = "http" /\ tEv[i].pc \in {"spawned", "exec", "done"})
              => tEv[i].resp \in {"", "accepted"}
        /\ tEv[i].ret = "err" => tEv[i].resp \in {"", "accepted"}

\* the file watcher took a second event while the workflow of the first was
\* running, and the second execution failed
C25_Witness ==
    /\ Len(tEv) = 2
    /\ tEv[1].kind = "file" /\ tEv[1].pc = "exec"
    /\ tEv[2].kind = "file" /\ tEv[2].pc = "done" /\ tEv[2].ret = "err"

\* what the history holds for step i, from the definition and from what the
\* step's attempts returned alone
ExpectedStatus(i) ==
    IF wf[i].ifT # "" /\ evaluateCondition(wf[i].ifT).err THEN "failed"
    ELSE IF ~Runs(i) THEN "skipped"
    ELSE IF IsOk(calls[i][Len(calls[i])]) THEN "completed"
    ELSE "failed"

\* step i used up its attempts without a success
ExecFailed(i) ==
    /\ Runs(i)
    /\ Len(calls[i]) = MaxRetriesOf(wf[i])
    /\ AllFailed(i)

\* C26: whether the SaveWorkflowInstance calls fail or not, the steps run, the
\* attempts made, the in-memory status and history and the value returned
\* are those given by the definition and by what the actions returned.
C26_SaveFailureHarmless ==
    ePc # "idle" =>
        /\ \A i \in 1..Len(instance.steps) :
              /\ Runs(i) => (FailedThenOk(i) \/ ExecFailed(i))
              /\ ~Runs(i) => calls[i] = <<>>
              /\ instance.steps[i].status = ExpectedStatus(i)
        /\ instance.status =
              IF \E i \in 1..Len(instance.steps) : ExecFailed(i) THEN "failed"
              ELSE IF eRet.returned THEN "completed"
              ELSE "running"
        /\ eRet.returned =>
              /\ eRet.id = instance.id
              /\ (eRet.err # NoErr) <=> (instance.status = "failed")
              /\ eRet.err = NoErr => Len(instance.steps) = Len(wf)
        /\ (~eRet.returned /\ ePc # "init") => Len(instance.steps) = eIdx - 1

\* a run in which every save failed: nothing is stored, both steps ran and
\* the instance is completed
C26_Witness ==
    /\ eRet.returned /\ eRet.err = NoErr
    /\ handed.err /\ ~store.exists
    /\ Len(wf) = 2
    /\ instance.status = "completed"
    /\ StepStatuses(instance) = <<"completed", "completed">>

\* the delay after failed attempt n under the three strategies of the claim
SpecDelay(retry, n) ==
    IF retry.backoff = "exponential" THEN BaseDuration * (2 ^ (n - 1))
    ELSE IF retry.backoff = "linear" THEN BaseDuration * n
    ELSE BaseDuration

\* C27: the wait after failed attempt N of a step is base for fixed backoff,
\* base x N for linear and base x 2^(N-1) for exponential backoff.
C27_BackoffDelays ==
    [][(ePc = "backoff" /\ ePc' = "attempt") =>
          slept' = Append(slept, SpecDelay(StepAt(eIdx).retry, attempt))]_vars

(***************************************************************************)
(* Claims about the orchestrator's retries and its final status.           *)
(***************************************************************************)
\* C28: a step with RetryPolicy.MaxRetries = K >= 1 is executed at most K
\* times by executeSteps and retryStep together, first attempt included.
C28_OrchRetryBound ==
    \A i \in DOMAIN oTries :
        oSteps[i].retry >= 1 => oTries[i] <= oSteps[i].retry

\* C29: when the execution goroutine ends the execution because it found the
\* ctx cancelled, at the top of the loop or inside a step (delay wait, retry
\* wait), the status it leaves is cancelled.
C29_CancelledStatus ==
    [][(/\ oCtxDone
        /\ \/ /\ oPc = "fail" /\ oPc' # "fail"
              /\ oPend.err = "context canceled"
           \/ /\ oPc = "loop" /\ oPc' = "done"
              /\ oIdx <= Len(oSteps))
          => oStatus' = "cancelled"]_vars

(***************************************************************************)
(* Claims about the join of a parallel step.                               *)
(***************************************************************************)
\* C30: with join type any, when executeParallelStep returns while a branch
\* is still running, and neither the timeout nor a cancellation ended it,
\* some branch has put a result into the results map.
C30_JoinAnyNeedsResult ==
    [][(/\ pPc = "join" /\ pPc' \in {"completed", "returned"}
        /\ par.joinType = "any"
        /\ ~WaitGroupDone
        /\ ~pCtxDone)
          => DOMAIN pResults # {}]_vars

\* C31: with join type first, once a branch has recorded a result or an
\* error, the next check of the join loop lets executeParallelStep go on,
\* whatever the other branches do.
C31_JoinFirstReleases ==
    (/\ pPc = "join"
     /\ par.joinType = "first"
     /\ ~pCtxDone
     /\ ~WaitGroupDone
     /\ (DOMAIN pResults \cup DOMAIN pErrors) # {})
        => TickReleases



\* a sub-step of branch b has failed: the branch went past a sub-step whose
\* result it did not keep
SubStepFailed(b) == \E k \in 1..(bStep[b] - 1) : k \notin bResult[b]

\* C32: without FailFast, when executeParallelStep has returned its maps
\* after every branch ended, each branch in which a sub-step failed has an
\* entry in the errors map under its branch id.
C32_ErrorsCollected ==
    (/\ pPc = "returned"
     /\ ~par.failFast
     /\ pRet.err = NoErr
     /\ WaitGroupDone)
        => \A b \in Branches : SubStepFailed(b) => BranchId(b) \in DOMAIN pErrors


\* C33: a call of executeParallelStep whose MaxParallel is zero or negative
\* gets past the creation of the semaphore and runs with as many slots as
\* there are branches; it does not panic.
C33_NonPositiveCapUnbounded ==
    (par.present /\ pPc # "idle" /\ (par.maxParallel <= 0 \/ par.maxParallel = par.n))
        => (pPc # "panicked" /\ SemCap = par.n)


\* the branch context of b has been created
HasContext(b) == bPc[b] \in {"run", "exec", "exit", "freed", "done"}

\* C34: during and after executeParallelStep the parent context's Variables
\* are the ones of the call, and the Variables of each branch context are a
\* map of its own holding the parent's entries overlaid by the branch's, the
\* branch's value standing where both have the key.
C34_ParentVariablesKept ==
    (par.present /\ pPc \notin {"idle", "panicked"}) =>
        /\ pHeap[ParentRef] = par.parent
        /\ \A b \in Branches : HasContext(b) =>
            /\ BranchId(b) \in DOMAIN pHeap
            /\ \A k \in DOMAIN par.vars[b] :
                    pHeap[BranchId(b)][k] = par.vars[b][k]
            /\ \A k \in DOMAIN par.parent \ DOMAIN par.vars[b] :
                    pHeap[BranchId(b)][k] = par.parent[k]
            /\ DOMAIN pHeap[BranchId(b)] \subseteq
                    DOMAIN par.parent \cup DOMAIN par.vars[b] \cup {"out"}

\* the call has returned after a branch overlaid a key of the parent and the
\* step executor stored an output in the branch's variables
C34_Witness ==
    /\ pPc = "returned"
    /\ par.parent # EmptyMap
    /\ \E b \in Branches :
        /\ par.vars[b] # EmptyMap
        /\ bPc[b] = "done"
        /\ BranchId(b) \in DOMAIN pHeap
        /\ "out" \in DOMAIN pHeap[BranchId(b)]
        /\ pHeap[BranchId(b)]["x"] = "branch"
        /\ pHeap[ParentRef]["x"] = "parent"


\* the steps of the execution whose result is stored and that are loops
LoopsDone == {i \in DOMAIN oSteps : oSteps[i].type = "loop"
                                    /\ OStepId(i) \in DOMAIN oResults}

\* the loop conditions that are falsy: empty, false, 0, no
FalsyCondition(c) == c \in {"", "false", "0", "no"}

\* while executeLoopStep runs the count of iterations is the length of the
\* results; in what it returns it is, and lies between 0 and maxIterations
LoopWithinBound ==
    /\ oPc = "iter" => oIter.iteration = Len(oIter.results)
    /\ \A i \in LoopsDone :
        /\ oResults[OStepId(i)].n = Len(oResults[OStepId(i)].results)
        /\ oResults[OStepId(i)].n \in 0..oSteps[i].maxIter

\* C35: executeLoopStep returns iterations equal to the length of results,
\* between 0 and maxIterations; it makes no pass while the condition is
\* falsy; a pass made with the context done is the last one; and every call
\* of executeLoopStep ends.
C35_LoopTerminates ==
    /\ []LoopWithinBound
    /\ [][(oPc = "iter" /\ FalsyCondition(oSteps[oIdx].cfg))
                => oIter' = oIter]_vars
    /\ [][(oPc = "iter" /\ StepCtxDone /\ oIter' # oIter) => oPc' # "iter"]_vars
    /\ (oPc = "iter") ~> (oPc # "iter")


TerminalStatuses == {"completed", "failed", "cancelled"}

\* C36: once the status of an execution is completed, failed or cancelled,
\* no step changes it.
C36_TerminalStatusSticks ==
    [][(oStatus \in TerminalStatuses) => (oStatus' = oStatus)]_vars


\* C37: a retry attempt that succeeds leaves the result of the handler of
\* the step's type, as a first attempt does: the result stored for a delay,
\* loop, condition or subflow step is never the step executor's.
C37_RetryDispatchesByType ==
    [][(/\ oPc = "retryexec"
        /\ oPc' = "store")
            => oPend'.res.kind = oSteps[oIdx].type]_vars


\* C38: when executeParallelStep has returned, every branch goroutine that
\* was started has ended.
C38_NoBranchAfterReturn ==
    (pPc = "returned" /\ pRet.returned) =>
        \A b \in DOMAIN bPc : bPc[b] \in {"unborn", "done"}


\* how many times execution e went through the counter of
\* markExecution<kind>: once per call, the call under way left out while it
\* is between the status and the counter
CountedAs(e, kind) ==
    LET n == Len(xCtxs[e].marks) IN
    CountOf(xCtxs[e].marks, kind)
        - IF xCtxs[e].pc = "count" /\ xCtxs[e].marks[n] = kind THEN 1 ELSE 0

\* the executions counted under the kind
MarkedAs(kind) == {e \in DOMAIN xCtxs : CountedAs(e, kind) > 0}

\* C39: whatever the interleaving of the executions, each is counted at most
\* once, as completed or as failed and not as both; the counters are the
\* numbers of executions so counted, and Completed + Failed <= Total.
C39_MetricsCountOnce ==
    /\ \A e \in DOMAIN xCtxs :
            CountOf(xCtxs[e].marks, "completed")
                + CountOf(xCtxs[e].marks, "failed") <= 1
    /\ metrics.completed = Cardinality(MarkedAs("completed"))
    /\ metrics.failed = Cardinality(MarkedAs("failed"))
    /\ metrics.completed + metrics.failed <= metrics.total

\* two executions have ended, one completed and one failed, and both are
\* counted
C39_Witness ==
    /\ metrics.total = 2
    /\ metrics.completed = 1
    /\ metrics.failed = 1
    /\ \A e \in DOMAIN xCtxs : xCtxs[e].pc = "done"

\* C40: two calls of ExecuteWorkflow get different ExecutionIDs, and every
\* execution that was stored is the one GetExecution finds under its id.
C40_DistinctExecutionIDs ==
    /\ \A e, f \in DOMAIN xCtxs : e # f => xCtxs[e].id # xCtxs[f].id
    /\ \A e \in DOMAIN xCtxs :
            xCtxs[e].pc # "created" => GetExecution(xCtxs[e].id) = e

====
